---- MODULE Spec2Model ----
(***************************************************************************)
(* The manufacturer image enrichment script: main() reads the catalog      *)
(* table, resolves one image URL per row in a bounded worker pool          *)
(* (curated override, else scraping of the official page), merges the      *)
(* results by id, backfills unresolved rows from rows of the same          *)
(* manufacturer, and writes the table and a metadata summary.              *)
(* The web page that shows the catalog (main.js) is modelled by its        *)
(* compare selection.                                                      *)
(*                                                                         *)
(* Texts (CSV cells) are sequences of chunks: a chunk is a whitespace or   *)
(* control character, or a word without any whitespace.  The empty text    *)
(* is << >>.  URLs are words; what the URL parser makes of a word is       *)
(* given by ParseURL.  A host name is the sequence of its labels.          *)
(***************************************************************************)
EXTENDS Integers, Sequences, FiniteSets, TLC

\* ---------------------------------------------------------------------------
\* Bounds of the model
\* ---------------------------------------------------------------------------
MaxRows == 2
MaxWorkers == 2
MaxPoolRows == 3
MaxFallbackRows == 3
MaxModels == 7

\* ---------------------------------------------------------------------------
\* Program constants
\* ---------------------------------------------------------------------------
MAX_CANDIDATES_TO_PROBE == 16
MIN_CONTENT_LENGTH == 2000
\* the web page (main.js)
COMPARE_LIMIT == 6

BAD_IMAGE_HINTS ==
  {"logo", "icon", "favicon", "sprite", "avatar", "badge", "placeholder",
   "loader", "apple-touch", "maskable", "site-icon", "manifest", "new-tab", "pwa"}

SOCIAL_HOST_HINTS == {"facebook.com", "fbcdn.net", "twitter.com", "x.com", "linkedin.com"}
HARD_BLOCK_IMAGE_HINTS == {"favicon", "apple-touch", "maskable", "/icons/", "/icon/"}
DISALLOWED_SOURCE_HOST_HINTS == {"wikipedia.org", "wikimedia.org", "kickstarter.com", "indiegogo.com"}

\* id -> image URL, the curated table (the value is a one-word text)
CURATED_IMAGE_OVERRIDES_BY_ID ==
  [k \in {"vH20M2KPj", "UR8rXYX7t", "6z7r29ojZ", "0iz9ksGZA", "vn_zQOTOV", "pOfzEGXDw"} |->
     CASE k = "vH20M2KPj" -> "https://www.ajnalens.com/_next/static/media/Rec3467860.81d5d5c9.svg"
       [] k = "UR8rXYX7t" -> "https://static.wixstatic.com/media/86f41c_ff8e1bdf90e1402b98efcb9c7dc5e98c~mv2.png/v1/fit/w_1920,h_1440,q_90,enc_avif,quality_auto/86f41c_ff8e1bdf90e1402b98efcb9c7dc5e98c~mv2.png"
       [] k = "6z7r29ojZ" -> "https://images.prismic.io/julbo/Zw5sh4F3NbkBXduo_adilheadermobile.jpg?auto=format,compress&rect=0,375,1748,1748&w=580&h=580&fit=crop"
       [] k = "0iz9ksGZA" -> "https://static.xx.fbcdn.net/mci_ab/public/cms/?ab_b=e&ab_page=CMS&ab_entry=2061368471315981&version=1765379917&transcode_extension=webp"
       [] k = "vn_zQOTOV" -> "https://ztedevices.com/content/dam/zte-devices/global/products/accessories/wearable/nubia-neovision-glass/nubia%20Neovision%20Glass.png"
       [] k = "pOfzEGXDw" -> "https://xyz-reality.transforms.svdcdn.com/production/assets/Page-Images/Onsite-deployment/Ontime-delivery-3.jpg?w=1200&h=630&q=82&auto=format&fit=crop&dm=1738945418&s=9a14dac00700f9b0f5a72140d5d5c816"]

\* ---------------------------------------------------------------------------
\* Texts
\* ---------------------------------------------------------------------------
EmptyText == << >>

\* [\u0000-\u001F\u007F]
ControlChars == {"\t", "\n", "\r"}
\* what \s and String.prototype.trim take for whitespace
WhitespaceChars == {" "} \cup ControlChars

RECURSIVE ReplaceControlRuns(_)
\* .replace(CONTROL_CHAR_REGEX, ' '): every run of control characters becomes one space
ReplaceControlRuns(t) ==
  IF t = << >> THEN << >>
  ELSE IF Head(t) \in ControlChars
       THEN IF Len(t) > 1 /\ t[2] \in ControlChars
            THEN ReplaceControlRuns(Tail(t))
            ELSE <<" ">> \o ReplaceControlRuns(Tail(t))
       ELSE <<Head(t)>> \o ReplaceControlRuns(Tail(t))

RECURSIVE CollapseWhitespace(_)
\* .replace(/\s+/g, ' '): every run of whitespace becomes one space
CollapseWhitespace(t) ==
  IF t = << >> THEN << >>
  ELSE IF Head(t) \in WhitespaceChars
       THEN IF Len(t) > 1 /\ t[2] \in WhitespaceChars
            THEN CollapseWhitespace(Tail(t))
            ELSE <<" ">> \o CollapseWhitespace(Tail(t))
       ELSE <<Head(t)>> \o CollapseWhitespace(Tail(t))

RECURSIVE TrimLeft(_)
TrimLeft(t) ==
  IF t # << >> /\ Head(t) \in WhitespaceChars THEN TrimLeft(Tail(t)) ELSE t

RECURSIVE TrimRight(_)
TrimRight(t) ==
  IF t # << >> /\ t[Len(t)] \in WhitespaceChars
  THEN TrimRight(SubSeq(t, 1, Len(t) - 1))
  ELSE t

\* String.prototype.trim
trim(t) == TrimRight(TrimLeft(t))

sanitize(value) == trim(CollapseWhitespace(ReplaceControlRuns(value)))

\* String.prototype.toLowerCase on the words of the model
LowerWord(w) ==
  CASE w = "Acme" -> "acme"
    [] w = "ACME" -> "acme"
    [] w = "Vuzix" -> "vuzix"
    [] OTHER -> w

toLowerCase(t) == [i \in 1..Len(t) |-> LowerWord(t[i])]

\* ---------------------------------------------------------------------------
\* URLs
\* ---------------------------------------------------------------------------
NotAUrl == [ok |-> FALSE, protocol |-> "", hostname |-> << >>, pathname |-> "", search |-> ""]
Url(protocol, hostname, pathname, search) ==
  [ok |-> TRUE, protocol |-> protocol, hostname |-> hostname, pathname |-> pathname, search |-> search]

\* the images of a gallery page: one more than the probe loop looks at
GalleryPaths == [i \in 1..(MAX_CANDIDATES_TO_PROBE + 1) |-> "/gallery/" \o ToString(i) \o ".jpg"]
GalleryImages == [i \in DOMAIN GalleryPaths |-> "https://vendor.example" \o GalleryPaths[i]]

\* new URL(word): the parsed record, or NotAUrl where the constructor throws.
\* The scheme and the host are lower-cased and an empty path becomes "/".
ParseURL(w) ==
  CASE w = "https://vendor.example/product" -> Url("https:", <<"vendor", "example">>, "/product", "")
    [] w \in {"https://vendor.example", "https://vendor.example/", "HTTPS://Vendor.Example"}
         -> Url("https:", <<"vendor", "example">>, "/", "")
    [] w = "https://acme.example/glasses" -> Url("https:", <<"acme", "example">>, "/glasses", "")
    [] w \in {"https://acme.example", "https://acme.example/"} -> Url("https:", <<"acme", "example">>, "/", "")
    [] w = "ftp://vendor.example/product" -> Url("ftp:", <<"vendor", "example">>, "/product", "")
    [] w = "https://en.wikipedia.org/wiki/HoloLens" -> Url("https:", <<"en", "wikipedia", "org">>, "/wiki/HoloLens", "")
    [] w = "https://vendor.example/img/hero-1200x800.jpg"
         -> Url("https:", <<"vendor", "example">>, "/img/hero-1200x800.jpg", "")
    [] w = "https://vendor.example/favicon.ico" -> Url("https:", <<"vendor", "example">>, "/favicon.ico", "")
    [] w = "https://cdn.shop.example/media/front.png" -> Url("https:", <<"cdn", "shop", "example">>, "/media/front.png", "")
    [] w = "https://cdn.shop.example/media/side.png" -> Url("https:", <<"cdn", "shop", "example">>, "/media/side.png", "")
    [] w = "https://acme.example/p.jpg" -> Url("https:", <<"acme", "example">>, "/p.jpg", "")
    [] w = "https://favicon.acme.example/p.jpg"
         -> Url("https:", <<"favicon", "acme", "example">>, "/p.jpg", "")
    [] w = "https://cdn.shop.example/assets/banner"
         -> Url("https:", <<"cdn", "shop", "example">>, "/assets/banner", "")
    [] w = "https://vendor.example/press" -> Url("https:", <<"vendor", "example">>, "/press", "")
    [] w = "https://vendor.example/shop" -> Url("https:", <<"vendor", "example">>, "/shop", "")
    [] w = "https://vendor.example/lookbook" -> Url("https:", <<"vendor", "example">>, "/lookbook", "")
    [] w = "https://vendor.example/gallery" -> Url("https:", <<"vendor", "example">>, "/gallery", "")
    [] \E i \in DOMAIN GalleryImages : w = GalleryImages[i]
         -> Url("https:", <<"vendor", "example">>,
                GalleryPaths[CHOOSE i \in DOMAIN GalleryImages : w = GalleryImages[i]], "")
    [] w = "https://www.vuzix.com/pages/vuzix-m100"
         -> Url("https:", <<"www", "vuzix", "com">>, "/pages/vuzix-m100", "")
    [] w \in {"https://www.vuzix.com", "https://www.vuzix.com/"}
         -> Url("https:", <<"www", "vuzix", "com">>, "/", "")
    [] w = "https://www.vuzix.com/cdn/shop/files/m100"
         -> Url("https:", <<"www", "vuzix", "com">>, "/cdn/shop/files/m100", "")
    [] w = "https://scontent.fbcdn.net/v/hero.jpg"
         -> Url("https:", <<"scontent", "fbcdn", "net">>, "/v/hero.jpg", "")
    [] w = "https://old.example/stale.png" -> Url("https:", <<"old", "example">>, "/stale.png", "")
    [] w = "https://www.ajnalens.com/_next/static/media/Rec3467860.81d5d5c9.svg"
         -> Url("https:", <<"www", "ajnalens", "com">>, "/_next/static/media/Rec3467860.81d5d5c9.svg", "")
    [] w = "https://static.wixstatic.com/media/86f41c_ff8e1bdf90e1402b98efcb9c7dc5e98c~mv2.png/v1/fit/w_1920,h_1440,q_90,enc_avif,quality_auto/86f41c_ff8e1bdf90e1402b98efcb9c7dc5e98c~mv2.png"
         -> Url("https:", <<"static", "wixstatic", "com">>, "/media/86f41c_ff8e1bdf90e1402b98efcb9c7dc5e98c~mv2.png/v1/fit/w_1920,h_1440,q_90,enc_avif,quality_auto/86f41c_ff8e1bdf90e1402b98efcb9c7dc5e98c~mv2.png", "")
    [] w = "https://images.prismic.io/julbo/Zw5sh4F3NbkBXduo_adilheadermobile.jpg?auto=format,compress&rect=0,375,1748,1748&w=580&h=580&fit=crop"
         -> Url("https:", <<"images", "prismic", "io">>, "/julbo/Zw5sh4F3NbkBXduo_adilheadermobile.jpg", "?auto=format,compress&rect=0,375,1748,1748&w=580&h=580&fit=crop")
    [] w = "https://static.xx.fbcdn.net/mci_ab/public/cms/?ab_b=e&ab_page=CMS&ab_entry=2061368471315981&version=1765379917&transcode_extension=webp"
         -> Url("https:", <<"static", "xx", "fbcdn", "net">>, "/mci_ab/public/cms/", "?ab_b=e&ab_page=CMS&ab_entry=2061368471315981&version=1765379917&transcode_extension=webp")
    [] w = "https://ztedevices.com/content/dam/zte-devices/global/products/accessories/wearable/nubia-neovision-glass/nubia%20Neovision%20Glass.png"
         -> Url("https:", <<"ztedevices", "com">>, "/content/dam/zte-devices/global/products/accessories/wearable/nubia-neovision-glass/nubia%20Neovision%20Glass.png", "")
    [] w = "https://xyz-reality.transforms.svdcdn.com/production/assets/Page-Images/Onsite-deployment/Ontime-delivery-3.jpg?w=1200&h=630&q=82&auto=format&fit=crop&dm=1738945418&s=9a14dac00700f9b0f5a72140d5d5c816"
         -> Url("https:", <<"xyz-reality", "transforms", "svdcdn", "com">>, "/production/assets/Page-Images/Onsite-deployment/Ontime-delivery-3.jpg", "?w=1200&h=630&q=82&auto=format&fit=crop&dm=1738945418&s=9a14dac00700f9b0f5a72140d5d5c816")
    [] OTHER -> NotAUrl

RECURSIVE JoinLabels(_)
\* a host name, written with dots, from its labels
JoinLabels(labels) ==
  IF labels = << >> THEN ""
  ELSE IF Len(labels) = 1 THEN labels[1]
  ELSE labels[1] \o "." \o JoinLabels(Tail(labels))

\* URL.prototype.toString
href(u) == u.protocol \o "//" \o JoinLabels(u.hostname) \o u.pathname \o u.search
\* URL.prototype.origin
origin(u) == u.protocol \o "//" \o JoinLabels(u.hostname)

\* new URL(text) of a sanitized text: only a one-word text can parse
ParseText(text) == IF Len(text) = 1 THEN ParseURL(text[1]) ELSE NotAUrl

safeHttpUrl(value) ==
  LET text == sanitize(value)
      parsed == ParseText(text)
  IN IF text = EmptyText THEN EmptyText
     ELSE IF ~parsed.ok THEN EmptyText
     ELSE IF parsed.protocol # "http:" /\ parsed.protocol # "https:" THEN EmptyText
     ELSE <<href(parsed)>>

\* ---------------------------------------------------------------------------
\* Substring and pattern tests on the strings of the model
\* ---------------------------------------------------------------------------
\* String.prototype.toLowerCase on URL strings (those not listed are lower-case already)
lower(s) ==
  CASE s = "/wiki/HoloLens" -> "/wiki/hololens"
    [] s = "https://en.wikipedia.org/wiki/HoloLens" -> "https://en.wikipedia.org/wiki/hololens"
    [] OTHER -> s

\* the hint strings and tokens that occur in s as a substring
Occurring(s) ==
  CASE s = "/assets/banner" -> {"/assets/"}
    [] s = "/favicon.ico" -> {"favicon", "icon"}
    [] s = "/glasses" -> {"glass"}
    [] s = "/img/hero-1200x800.jpg" -> {"hero"}
    [] s = "/media/front.png" -> {"/media/"}
    [] s = "/media/side.png" -> {"/media/"}
    [] s = "https://cdn.shop.example/media/side.png" -> {"/media/"}
    [] s = "acme.example" -> {"acme"}
    [] s = "vendor.example" -> {"vendor"}
    [] s = "https://acme.example/" -> {"acme"}
    [] s = "https://acme.example/glasses" -> {"acme", "glass"}
    [] s = "https://acme.example/p.jpg" -> {"acme"}
    [] s = "favicon.acme.example" -> {"acme", "favicon", "icon"}
    [] s = "https://favicon.acme.example/p.jpg" -> {"acme", "favicon", "icon"}
    [] s = "https://cdn.shop.example/media/front.png" -> {"/media/"}
    [] s = "https://cdn.shop.example/assets/banner" -> {"/assets/"}
    [] s = "https://vendor.example/" -> {"vendor"}
    [] s = "https://vendor.example/favicon.ico" -> {"favicon", "icon", "vendor"}
    [] s = "https://vendor.example/img/hero-1200x800.jpg" -> {"hero", "vendor"}
    [] s = "https://vendor.example/product" -> {"vendor"}
    [] s = "https://vendor.example/press" -> {"vendor"}
    [] s = "https://vendor.example/shop" -> {"vendor"}
    [] s = "https://vendor.example/lookbook" -> {"vendor"}
    [] s = "https://vendor.example/gallery" -> {"vendor"}
    [] s = "/v/hero.jpg" -> {"hero"}
    [] s = "scontent.fbcdn.net" -> {"fbcdn.net"}
    [] s = "https://scontent.fbcdn.net/v/hero.jpg" -> {"fbcdn.net", "hero"}
    [] s = "www.vuzix.com" -> {"x.com"}
    [] s \in {"https://www.vuzix.com", "https://www.vuzix.com/", "https://www.vuzix.com/cdn/shop/files/m100",
              "https://www.vuzix.com/pages/vuzix-m100"} -> {"x.com"}
    [] s = "image_src" -> {"image_src"}
    [] s = "preload" -> {"preload"}
    [] s = "application/ld+json" -> {"ld+json"}
    [] OTHER -> {}

\* String.prototype.includes
Includes(s, needle) == needle \in Occurring(s)

\* IMAGE_EXTENSION_REGEX.test(s): /\.(jpg|jpeg|png|webp|avif)(\?|$)/i
IMAGE_EXTENSION_REGEX(s) ==
  s \in {"/img/hero-1200x800.jpg", "/media/front.png", "/p.jpg",
         "/media/side.png", "https://cdn.shop.example/media/side.png",
         "https://vendor.example/img/hero-1200x800.jpg",
         "https://cdn.shop.example/media/front.png", "https://acme.example/p.jpg",
         "https://favicon.acme.example/p.jpg",
         "/v/hero.jpg", "https://scontent.fbcdn.net/v/hero.jpg",
         "/stale.png", "https://old.example/stale.png"}
    \cup {GalleryPaths[i] : i \in DOMAIN GalleryPaths}
    \cup {GalleryImages[i] : i \in DOMAIN GalleryImages}

\* /\.svg(\?|$)/i.test(s)
SvgRegex(s) == s \in {"/_next/static/media/rec3467860.81d5d5c9.svg"}

\* s.match(/(\d{3,4})x(\d{3,4})/): <<width, height>> of the first match, << >> if none
DimMatch(s) ==
  CASE s = "/img/hero-1200x800.jpg" -> <<1200, 800>>
    [] OTHER -> << >>

\* ---------------------------------------------------------------------------
\* Host names
\* ---------------------------------------------------------------------------
SECOND_LEVEL_TLDS ==
  {<<"co", "uk">>, <<"org", "uk">>, <<"com", "au">>, <<"co", "jp">>, <<"com", "br">>,
   <<"com", "mx">>, <<"com", "tr">>, <<"co", "kr">>, <<"com", "cn">>, <<"com", "tw">>,
   <<"com", "sg">>, <<"com", "hk">>, <<"co", "in">>}

\* the labels of the hint host names
HintLabels(hint) ==
  CASE hint = "wikipedia.org" -> <<"wikipedia", "org">>
    [] hint = "wikimedia.org" -> <<"wikimedia", "org">>
    [] hint = "kickstarter.com" -> <<"kickstarter", "com">>
    [] hint = "indiegogo.com" -> <<"indiegogo", "com">>

LastLabels(labels, n) == SubSeq(labels, Len(labels) - n + 1, Len(labels))

\* host.endsWith(`.${suffix}`), both given by their labels
EndsWithDot(host, suffix) ==
  /\ suffix # << >>
  /\ Len(host) > Len(suffix)
  /\ LastLabels(host, Len(suffix)) = suffix

normalizeRootDomain(hostname) ==
  LET parts == hostname
  IN IF Len(parts) <= 2 THEN parts
     ELSE IF LastLabels(parts, 2) \in SECOND_LEVEL_TLDS /\ Len(parts) >= 3
          THEN LastLabels(parts, 3)
          ELSE LastLabels(parts, 2)

hasHostHint(hostname, hostHint) ==
  hostname = HintLabels(hostHint) \/ EndsWithDot(hostname, HintLabels(hostHint))

domainAffinityScore(candidateHost, officialHost) ==
  LET candidate == normalizeRootDomain(candidateHost)
      official == normalizeRootDomain(officialHost)
  IN IF candidate = << >> \/ official = << >> THEN 0
     ELSE IF candidate = official THEN 60
     ELSE IF EndsWithDot(candidateHost, official) \/ EndsWithDot(officialHost, candidate) THEN 35
     ELSE 0

\* ---------------------------------------------------------------------------
\* Scoring
\* ---------------------------------------------------------------------------
\* the tokens of one word: split at non-alphanumerics, lower-cased
WordTokens(w) ==
  CASE w = "Acme" -> <<"acme">>
    [] w = "Hero-X1" -> <<"hero", "x1">>
    [] w = "One" -> <<"one">>
    [] w \in WhitespaceChars -> << >>
    [] OTHER -> <<w>>

RECURSIVE SplitTokens(_)
\* text.toLowerCase().split(/[^a-z0-9]+/g)
SplitTokens(text) ==
  IF text = << >> THEN << >> ELSE WordTokens(Head(text)) \o SplitTokens(Tail(text))

\* the number of characters of a token
TokenLength(token) ==
  CASE token = "x1" -> 2
    [] token = "acme" -> 4
    [] token = "hero" -> 4
    [] token = "one" -> 3
    [] OTHER -> 3

RECURSIVE Distinct(_)
\* [...new Set(seq)]: first occurrences, in order
Distinct(seq) ==
  IF seq = << >> THEN << >>
  ELSE LET init == Distinct(SubSeq(seq, 1, Len(seq) - 1))
           last == seq[Len(seq)]
       IN IF \E i \in 1..Len(init) : init[i] = last THEN init ELSE Append(init, last)

tokenizeRow(row) ==
  LET nameTokens == SelectSeq(SplitTokens(sanitize(row.name)), LAMBDA t : TokenLength(t) >= 3)
      shortNameTokens == SelectSeq(SplitTokens(sanitize(row.short_name)), LAMBDA t : TokenLength(t) >= 3)
  IN Distinct(nameTokens \o shortNameTokens)

typeWeight(kind) ==
  CASE kind = "og" -> 70
    [] kind = "twitter" -> 62
    [] kind = "itemprop" -> 56
    [] kind = "link" -> 44
    [] kind = "source" -> 30
    [] kind = "img" -> 24
    [] kind = "jsonld" -> 22
    [] kind = "raw" -> 12
    [] OTHER -> 0

Min(a, b) == IF a <= b THEN a ELSE b
Max(a, b) == IF a >= b THEN a ELSE b

staticCandidateScore(candidate, officialHost, rowTokens) ==
  LET parsed == ParseURL(candidate.url)
      base == typeWeight(candidate.kind)
      path == lower(parsed.pathname \o parsed.search)
      affinity == domainAffinityScore(parsed.hostname, officialHost)
      social == IF \E host \in SOCIAL_HOST_HINTS : Includes(JoinLabels(parsed.hostname), host)
                THEN 0 - 120 ELSE 0
      extension == IF IMAGE_EXTENSION_REGEX(path) THEN 14
                   ELSE IF Includes(path, "/images/") \/ Includes(path, "/media/") \/ Includes(path, "/assets/")
                        THEN 4 ELSE 0
      svg == IF SvgRegex(path) THEN 0 - 24 ELSE 0
      bad == IF \E hint \in BAD_IMAGE_HINTS : Includes(path, hint) THEN 0 - 160 ELSE 0
      tokenHits == Cardinality({i \in 1..Len(rowTokens) : Includes(path, rowTokens[i])})
      dimMatch == DimMatch(path)
      dims == IF dimMatch # << >> /\ dimMatch[1] >= 500 /\ dimMatch[2] >= 300 THEN 10 ELSE 0
  IN IF ~parsed.ok THEN base - 999
     ELSE base + affinity + social + extension + svg + bad + Min(tokenHits * 9, 36) + dims

\* ---------------------------------------------------------------------------
\* Documents and candidate extraction
\* ---------------------------------------------------------------------------
\* A document is the sequence of its tags in document order.  An attribute
\* value is a word ("" when the attribute is absent); a srcset is the sequence
\* of its comma-separated segments, each a URL with a descriptor (number, unit);
\* the body of a script is given by the URL-like matches found in it.
Tag(tag, key, as, url, srcset, urls) ==
  [tag |-> tag, key |-> key, as |-> as, url |-> url, srcset |-> srcset, urls |-> urls]
Meta(property, content) == Tag("meta", property, "", content, << >>, << >>)
Link(rel, as, url) == Tag("link", rel, as, url, << >>, << >>)
Source(srcset, src) == Tag("source", "", "", src, srcset, << >>)
Img(src, srcset) == Tag("img", "", "", src, srcset, << >>)
Script(type, urls) == Tag("script", type, "", "", << >>, urls)
Segment(url, num, unit) == [url |-> url, num |-> num, unit |-> unit]

extractTags(html, tagName) == SelectSeq(html, LAMBDA t : t.tag = tagName)

RECURSIVE InsertByKey(_, _)
\* x goes behind every element whose key is not smaller: the order of equal keys is kept
InsertByKey(sorted, x) ==
  IF sorted = << >> THEN <<x>>
  ELSE IF Head(sorted).key < x.key THEN <<x>> \o sorted
  ELSE <<Head(sorted)>> \o InsertByKey(Tail(sorted), x)

RECURSIVE SortDescending(_)
\* Array.prototype.sort((left, right) => right.key - left.key), a stable sort
SortDescending(seq) ==
  IF seq = << >> THEN << >>
  ELSE InsertByKey(SortDescending(SubSeq(seq, 1, Len(seq) - 1)), seq[Len(seq)])

parseSrcsetUrls(value) ==
  LET weight(seg) == IF seg.unit = "w" THEN seg.num
                     ELSE IF seg.unit = "x" THEN seg.num * 1000
                     ELSE 0
      entries == [i \in 1..Len(value) |-> [key |-> weight(value[i]), url |-> value[i].url]]
      sorted == SortDescending(entries)
  IN SelectSeq([i \in 1..Len(sorted) |-> sorted[i].url], LAMBDA u : u # "")

\* a root-relative reference: its path and query, or << >> for any other word
RelativeRef(w) ==
  CASE w = "/favicon.ico" -> <<"/favicon.ico", "">>
    [] w = "/img/hero-1200x800.jpg" -> <<"/img/hero-1200x800.jpg", "">>
    [] OTHER -> << >>

\* new URL(word, baseUrl)
ParseURLWithBase(w, baseUrl) ==
  LET base == ParseURL(baseUrl)
  IN IF ParseURL(w).ok THEN ParseURL(w)
     ELSE IF base.ok /\ RelativeRef(w) # << >>
          THEN Url(base.protocol, base.hostname, RelativeRef(w)[1], RelativeRef(w)[2])
          ELSE NotAUrl

\* text.startsWith('data:') || text.startsWith('javascript:')
IsPseudoUrl(w) == w \in {"data:image/png;base64,iVBORw0KGgo=", "javascript:void(0)"}

\* the absolute URL of a reference found in a document, "" if there is none
toAbsoluteUrl(candidate, baseUrl) ==
  LET text == sanitize(IF candidate = "" THEN << >> ELSE <<candidate>>)
      absolute == ParseURLWithBase(text[1], baseUrl)
  IN IF text = << >> \/ IsPseudoUrl(text[1]) THEN ""
     ELSE IF ~absolute.ok THEN ""
     ELSE IF absolute.protocol # "http:" /\ absolute.protocol # "https:" THEN ""
     ELSE href(absolute)

\* pushCandidate for each of the references, in order
Pushed(urls, kind, baseUrl) ==
  LET abs == [i \in 1..Len(urls) |-> [url |-> toAbsoluteUrl(urls[i], baseUrl), kind |-> kind]]
  IN SelectSeq(abs, LAMBDA c : c.url # "")

FirstTwo(seq) == SubSeq(seq, 1, Min(2, Len(seq)))

MetaCandidates(metaTag, baseUrl) ==
  IF metaTag.url = "" THEN << >>
  ELSE IF metaTag.key \in {"og:image", "og:image:url", "og:image:secure_url"}
       THEN Pushed(<<metaTag.url>>, "og", baseUrl)
  ELSE IF metaTag.key \in {"twitter:image", "twitter:image:src"}
       THEN Pushed(<<metaTag.url>>, "twitter", baseUrl)
  ELSE IF metaTag.key = "image" THEN Pushed(<<metaTag.url>>, "itemprop", baseUrl)
  ELSE << >>

LinkCandidates(linkTag, baseUrl) ==
  IF linkTag.url = "" THEN << >>
  ELSE IF Includes(linkTag.key, "image_src") THEN Pushed(<<linkTag.url>>, "link", baseUrl)
  ELSE IF Includes(linkTag.key, "preload") /\ linkTag.as = "image"
       THEN Pushed(<<linkTag.url>>, "link", baseUrl)
  ELSE << >>

SourceCandidates(sourceTag, baseUrl) ==
  Pushed(FirstTwo(parseSrcsetUrls(sourceTag.srcset)), "source", baseUrl)
    \o (IF sourceTag.url # "" THEN Pushed(<<sourceTag.url>>, "source", baseUrl) ELSE << >>)

ImgCandidates(imgTag, baseUrl) ==
  (IF imgTag.url # "" THEN Pushed(<<imgTag.url>>, "img", baseUrl) ELSE << >>)
    \o Pushed(FirstTwo(parseSrcsetUrls(imgTag.srcset)), "img", baseUrl)

IMG_TAG_LIMIT == 80

RECURSIVE Flatten(_)
Flatten(seqs) == IF seqs = << >> THEN << >> ELSE Head(seqs) \o Flatten(Tail(seqs))

\* the loop over the img tags, left when imgCount has reached the limit:
\* imgCount is one more for each tag with a src, and a tag is visited when the
\* count behind the tag before it is below the limit
ImgLoop(imgTags, imgCount, baseUrl) ==
  LET count(i) == imgCount + Cardinality({j \in 1..i : imgTags[j].url # ""})
      visited == {i \in 1..Len(imgTags) : i = 1 \/ count(i - 1) < IMG_TAG_LIMIT}
  IN Flatten([i \in 1..Cardinality(visited) |-> ImgCandidates(imgTags[i], baseUrl)])

ScriptCandidates(block, baseUrl) ==
  IF Includes(block.key, "ld+json") THEN Pushed(block.urls, "jsonld", baseUrl)
  ELSE Pushed(SelectSeq(block.urls,
                        LAMBDA c : \/ IMAGE_EXTENSION_REGEX(c)
                                   \/ Includes(c, "/images/")
                                   \/ Includes(c, "/media/")
                                   \/ Includes(c, "/assets/")),
              "raw", baseUrl)

\* candidates.filter(first occurrence of its url)
DedupeByUrl(candidates) ==
  LET placed == [i \in 1..Len(candidates) |-> [place |-> i, candidate |-> candidates[i]]]
      first == SelectSeq(placed, LAMBDA p : \A j \in 1..(p.place - 1) :
                                              candidates[j].url # p.candidate.url)
  IN [k \in 1..Len(first) |-> first[k].candidate]

collectImageCandidates(html, officialUrl) ==
  LET metas == extractTags(html, "meta")
      links == extractTags(html, "link")
      sources == extractTags(html, "source")
      scripts == extractTags(html, "script")
  IN DedupeByUrl(
       Flatten([i \in 1..Len(metas) |-> MetaCandidates(metas[i], officialUrl)])
         \o Flatten([i \in 1..Len(links) |-> LinkCandidates(links[i], officialUrl)])
         \o Flatten([i \in 1..Len(sources) |-> SourceCandidates(sources[i], officialUrl)])
         \o ImgLoop(extractTags(html, "img"), 0, officialUrl)
         \o Flatten([i \in 1..Len(scripts) |-> ScriptCandidates(scripts[i], officialUrl)]))

\* ---------------------------------------------------------------------------
\* The network
\* ---------------------------------------------------------------------------
\* What a request can come back with: no response at all (a network error, or the
\* abort of withTimeout), or an HTTP response.
NoResponse == [kind |-> "error", status |-> 0, contentType |-> "", contentLength |-> "", body |-> << >>]
Http(status, contentType, contentLength, body) ==
  [kind |-> "http", status |-> status, contentType |-> contentType,
   contentLength |-> contentLength, body |-> body]

\* response.ok
IsOk(response) == response.status >= 200 /\ response.status <= 299

\* the documents the sites of the model serve
Bodies(url) ==
  CASE url = "https://vendor.example/product"
         -> {<<Meta("og:image", "https://vendor.example/img/hero-1200x800.jpg"),
               Link("preload", "image", "/favicon.ico")>>}
    [] url \in {"https://vendor.example", "https://vendor.example/"}
         -> {<<Img("https://cdn.shop.example/media/front.png", << >>)>>}
    [] url = "https://vendor.example/shop"
         -> {<<Img("https://cdn.shop.example/media/front.png", << >>)>>}
    \* candidate lists of three, two and one entries; as many img elements as
    \* the loop counts and one more, the first ones without or with a src
    [] url = "https://vendor.example/lookbook"
         -> {<<Source(<<Segment("https://cdn.shop.example/media/side.png", 480, "w"),
                        Segment("https://vendor.example/img/hero-1200x800.jpg", 1200, "w"),
                        Segment("https://cdn.shop.example/media/front.png", 800, "w")>>, "")>>,
             <<Img("", <<Segment("https://cdn.shop.example/media/side.png", 1, "x"),
                         Segment("https://cdn.shop.example/media/front.png", 2, "x")>>)>>,
             <<Img("https://vendor.example/img/hero-1200x800.jpg",
                   <<Segment("https://cdn.shop.example/media/front.png", 2, "x")>>)>>,
             [i \in 1..IMG_TAG_LIMIT |-> Img("", << >>)]
               \o <<Img("https://cdn.shop.example/media/side.png", << >>)>>,
             [i \in 1..IMG_TAG_LIMIT |-> Img("https://vendor.example/img/hero-1200x800.jpg", << >>)]
               \o <<Img("https://cdn.shop.example/media/side.png", << >>)>>}
    [] url = "https://acme.example/glasses"
         -> {<<Meta("twitter:image", "https://acme.example/p.jpg"),
               Img("https://favicon.acme.example/p.jpg", << >>)>>}
    [] url = "https://acme.example"
         -> {<<Script("text/javascript", <<"https://cdn.shop.example/assets/banner">>)>>}
    [] url = "https://vendor.example/press"
         -> {<<Meta("og:image", "https://scontent.fbcdn.net/v/hero.jpg"),
               Img("https://cdn.shop.example/media/side.png", << >>),
               Img("https://vendor.example/img/hero-1200x800.jpg", << >>)>>}
    [] url = "https://vendor.example/gallery"
         -> {[i \in DOMAIN GalleryImages |-> Img(GalleryImages[i], << >>)]
               \o <<Img("https://vendor.example/img/hero-1200x800.jpg", << >>)>>}
    [] url = "https://www.vuzix.com/pages/vuzix-m100"
         -> {<<Meta("og:image", "https://scontent.fbcdn.net/v/hero.jpg"),
               Img("https://www.vuzix.com/cdn/shop/files/m100", << >>)>>}
    [] OTHER -> {<< >>}

\* The answers to the request of a page. `kinds` says what the sites of a run may
\* do: "error" (no response), "404", "200" (the document), "stalled" (the
\* status line and the headers of a 200, and then nothing of the body).
PageResponses(url, kinds) ==
  (IF "error" \in kinds THEN {NoResponse} ELSE {})
    \cup (IF "stalled" \in kinds
          THEN {[Http(200, "text/html", "", << >>) EXCEPT !.kind = "stalled"]} ELSE {})
    \cup (IF "404" \in kinds THEN {Http(404, "text/html", "", << >>)} ELSE {})
    \cup (IF "200" \in kinds THEN {Http(200, "text/html", "", body) : body \in Bodies(url)} ELSE {})

\* The answers to a probe. `kinds` says what the image servers of a run may do:
\* "error", "404", "html" (a page instead of an image), "image" (with `status`:
\* 200 to HEAD, 206 to the ranged GET); `lengths` are the content-length headers
\* they may send with an image.
ProbeResponses(status, kinds, lengths) ==
  (IF "error" \in kinds THEN {NoResponse} ELSE {})
    \cup (IF "404" \in kinds THEN {Http(404, "text/html", "", << >>)} ELSE {})
    \cup (IF "html" \in kinds THEN {Http(200, "text/html", "", << >>)} ELSE {})
    \cup (IF "image" \in kinds THEN {Http(status, "image/jpeg", n, << >>) : n \in lengths} ELSE {})


\* Number(response.headers.get('content-length')), with Number(null) = 0
NumberOf(header) ==
  CASE header = "" -> 0
    [] header = "2" -> 2
    [] header = "1500" -> 1500
    [] header = "1999" -> 1999
    [] header = "2000" -> 2000
    [] header = "12000" -> 12000
    [] header = "80000" -> 80000
    [] header = "250000" -> 250000

\* contentType.startsWith('image/')
IsImageType(contentType) == contentType \in {"image/jpeg", "image/png", "image/webp"}

Failed == [failed |-> TRUE, body |-> << >>]
NoProbe == [image |-> FALSE, contentLength |-> 0]

\* fetchText: the body, or a failure where it throws
fetchText(response) ==
  IF response.kind = "error" THEN Failed
  ELSE IF ~IsOk(response) THEN Failed
  ELSE [failed |-> FALSE, body |-> response.body]

\* probeHead: the probe, NoProbe where it returns null or throws
probeHead(response) ==
  IF response.kind = "error" THEN NoProbe
  ELSE IF ~IsOk(response) THEN NoProbe
  ELSE IF ~IsImageType(response.contentType) THEN NoProbe
  ELSE [image |-> TRUE, contentLength |-> NumberOf(response.contentLength)]

\* probeGet
probeGet(response) ==
  IF response.kind = "error" THEN NoProbe
  ELSE IF ~IsOk(response) /\ response.status # 206 THEN NoProbe
  ELSE IF ~IsImageType(response.contentType) THEN NoProbe
  ELSE [image |-> TRUE, contentLength |-> NumberOf(response.contentLength)]

\* ---------------------------------------------------------------------------
\* State
\* ---------------------------------------------------------------------------
VARIABLES
  pc,           \* where main is
  parseErrors,  \* input: Papa.parse reports an error for the table
  table,        \* input: the parsed rows of the CSV
  concurrency,  \* input: the worker count handed to runPool
  faulty,       \* input: the official URLs whose resolution raises an unexpected error
  servers,      \* input: what the sites and image servers of the run may answer
  net,          \* the answers of the network so far: request -> effect
  workRows,     \* main: the working copies of the rows
  candidates,   \* main: the rows to resolve (indices into workRows), in table order
  cursor,       \* runPool: the shared cursor
  results,      \* runPool: results[i], a row (its index in workRows) or 0 while unset
  wk,           \* runPool: the state of each runner
  updatedCount, curatedCount, manufacturerFallbackCount, failedCount,
  netRequests,  \* the number of network requests issued so far
  taken,        \* history: who took which index of the pending list, in order
  writes,       \* history: per row, who set its image_url to what, in order
  judged,       \* history: the probes the probe loop has judged, and its verdicts
  csvOut,       \* the CSV file: the rows written, << >> as long as it is untouched
  csvWrites,    \* the number of writes of the CSV file
  metaOut,      \* the metadata file: the JSON object it holds, key -> value
  metaWrites,   \* the number of writes of the metadata file
  exitCode,     \* process.exitCode
  stderr,       \* what main().catch printed
  loaded,       \* the web page: where init is, and whether the handlers are attached
  state,        \* the web page: its state object (the fields of the compare selection)
  lastEvent     \* history: the last event the web page handled

vars == <<pc, parseErrors, table, concurrency, faulty, servers, net, workRows, candidates, cursor,
          results, wk, updatedCount, curatedCount, manufacturerFallbackCount, failedCount,
          netRequests, taken, writes, judged, csvOut, csvWrites, metaOut, metaWrites, exitCode,
          stderr, loaded, state, lastEvent>>

\* the variables of the web page, which the script does not touch
browser == <<loaded, state, lastEvent>>

\* the variables of the script, which the web page does not touch
script == <<pc, parseErrors, table, concurrency, faulty, servers, net, workRows, candidates, cursor,
            results, wk, updatedCount, curatedCount, manufacturerFallbackCount, failedCount,
            netRequests, taken, writes, judged, csvOut, csvWrites, metaOut, metaWrites, exitCode,
            stderr>>

inputs == <<parseErrors, table, concurrency, faulty, servers>>

\* ---------------------------------------------------------------------------
\* resolveImageForRow and the worker callback of main, as steps of a runner
\* ---------------------------------------------------------------------------
\* The state main and the pool share, as one record, so that the synchronous
\* stretch of code between two awaits is one function on it.
Machine ==
  [rows |-> workRows, pending |-> candidates, cursor |-> cursor, results |-> results, wk |-> wk,
   updatedCount |-> updatedCount, curatedCount |-> curatedCount, failedCount |-> failedCount,
   netRequests |-> netRequests, taken |-> taken, writes |-> writes, judged |-> judged]

Idle == [pc |-> "idle", index |-> 0, pages |-> << >>, k |-> 0, cands |-> << >>,
         ranked |-> << >>, pos |-> 0]
Returned(index) == [Idle EXCEPT !.pc = "ret", !.index = index]
Finished == [Idle EXCEPT !.pc = "done"]

\* CURATED_IMAGE_OVERRIDES_BY_ID[key], the empty text where the table has no such key
OverrideFor(key) ==
  IF Len(key) = 1 /\ key[1] \in DOMAIN CURATED_IMAGE_OVERRIDES_BY_ID
  THEN <<CURATED_IMAGE_OVERRIDES_BY_ID[key[1]]>>
  ELSE EmptyText

\* String(row.id ?? '').trim()
IdOf(row) == trim(row.id)

curatedOverride(row) == safeHttpUrl(OverrideFor(IdOf(row)))

\* the pages resolveImageForRow reads: the official URL, and its origin if that differs
sourcePages(officialUrl) ==
  LET officialOrigin == origin(ParseURL(officialUrl))
  IN IF officialOrigin # "" /\ officialOrigin # officialUrl
     THEN <<officialUrl, officialOrigin>>
     ELSE <<officialUrl>>

\* Rank without the sort: the candidates in the order they were found
RankByDiscovery(cands, officialHost, rowTokens) ==
  LET scored == [i \in 1..Len(cands) |->
                   [key |-> staticCandidateScore(cands[i], officialHost, rowTokens),
                    url |-> cands[i].url, kind |-> cands[i].kind]]
  IN SubSeq(scored, 1, Min(MAX_CANDIDATES_TO_PROBE, Len(scored)))

\* Rank without the slice: every candidate in ranked order
RankAll(cands, officialHost, rowTokens) ==
  LET scored == [i \in 1..Len(cands) |->
                   [key |-> staticCandidateScore(cands[i], officialHost, rowTokens),
                    url |-> cands[i].url, kind |-> cands[i].kind]]
  IN SortDescending(scored)

\* candidates.map(score).sort(descending).slice(0, MAX_CANDIDATES_TO_PROBE)
Rank(cands, officialHost, rowTokens) ==
  LET scored == [i \in 1..Len(cands) |->
                   [key |-> staticCandidateScore(cands[i], officialHost, rowTokens),
                    url |-> cands[i].url, kind |-> cands[i].kind]]
      sorted == SortDescending(scored)
  IN SubSeq(sorted, 1, Min(MAX_CANDIDATES_TO_PROBE, Len(sorted)))

\* HardBlocked looking at the path of the URL only, as the denylist of the score does
HardBlockedOnPath(url) ==
  \E hint \in HARD_BLOCK_IMAGE_HINTS : Includes(lower(ParseURL(url).pathname), hint)

\* candidateUrlLower includes one of the hard-block hints
HardBlocked(url) == \E hint \in HARD_BLOCK_IMAGE_HINTS : Includes(lower(url), hint)

sizeBonus(contentLength) ==
  IF contentLength >= 250000 THEN 12
  ELSE IF contentLength >= 80000 THEN 8
  ELSE IF contentLength >= 12000 THEN 4
  ELSE 0

\* Undersized with the comparison against MIN_CONTENT_LENGTH turned around
UndersizedFlipped(probe) == probe.contentLength > 0 /\ probe.contentLength > MIN_CONTENT_LENGTH

\* the probe is one of too small a payload
Undersized(probe) == probe.contentLength > 0 /\ probe.contentLength < MIN_CONTENT_LENGTH

ACCEPT_SCORE == 20

\* the candidate is returned on this probe
Accepted(candidate, probe) ==
  /\ probe.image
  /\ ~Undersized(probe)
  /\ candidate.key + sizeBonus(probe.contentLength) >= ACCEPT_SCORE

\* Settle writing to the row taken last by any runner (a `row` shared between the
\* callbacks) instead of the callback's own row
SettleOnSharedRow(M, w, index, threw, imageUrl) ==
  LET ri == M.pending[Min(M.cursor - 1, Len(M.pending))]
      set == ~threw /\ imageUrl # EmptyText
  IN [M EXCEPT !.failedCount = IF threw THEN @ + 1 ELSE @,
               !.updatedCount = IF set THEN @ + 1 ELSE @,
               !.rows[ri].image_url = IF set THEN imageUrl ELSE @,
               !.writes[ri] = IF set THEN Append(@, [by |-> "direct", url |-> imageUrl]) ELSE @,
               !.wk[w] = Returned(index)]

\* Settle without the catch of the callback: the error ends the runner
SettleUncaught(M, w, index, threw, imageUrl) ==
  LET ri == M.pending[index]
      set == ~threw /\ imageUrl # EmptyText
  IN [M EXCEPT !.updatedCount = IF set THEN @ + 1 ELSE @,
               !.rows[ri].image_url = IF set THEN imageUrl ELSE @,
               !.writes[ri] = IF set THEN Append(@, [by |-> "direct", url |-> imageUrl]) ELSE @,
               !.wk[w] = IF threw THEN Finished ELSE Returned(index)]

\* The callback of main, from the return (or throw) of resolveImageForRow on.
Settle(M, w, index, threw, imageUrl) ==
  LET ri == M.pending[index]
      set == ~threw /\ imageUrl # EmptyText
  IN [M EXCEPT !.failedCount = IF threw THEN @ + 1 ELSE @,
               !.updatedCount = IF set THEN @ + 1 ELSE @,
               !.rows[ri].image_url = IF set THEN imageUrl ELSE @,
               !.writes[ri] = IF set THEN Append(@, [by |-> "direct", url |-> imageUrl]) ELSE @,
               !.wk[w] = Returned(index)]

RECURSIVE ProbeFrom(_, _, _, _)
\* The probe loop from position pos on, up to its next request: the HEAD probe of
\* the first candidate that is not hard-blocked, or the end of the loop.
ProbeFrom(M, w, st, pos) ==
  IF pos > Len(st.ranked) THEN Settle(M, w, st.index, FALSE, EmptyText)
  ELSE IF HardBlocked(st.ranked[pos].url) THEN ProbeFrom(M, w, st, pos + 1)
  ELSE [M EXCEPT !.netRequests = @ + 1,
                 !.wk[w] = [st EXCEPT !.pc = "head", !.pos = pos]]

\* resolveImageForRow behind its fetch loop
AfterPages(M, w, st) ==
  LET row == M.rows[M.pending[st.index]]
      officialHost == ParseText(safeHttpUrl(row.official_url)).hostname
  IN IF st.cands = << >> THEN Settle(M, w, st.index, FALSE, EmptyText)
     ELSE ProbeFrom(M, w, [st EXCEPT !.ranked = Rank(st.cands, officialHost, tokenizeRow(row))], 1)

\* OnPage without the try/catch around the fetch: a page that fails ends the
\* resolution with the empty result
OnPageStopsAtFailure(M, w, page) ==
  LET st == M.wk[w]
      found == IF page.failed THEN << >> ELSE collectImageCandidates(page.body, st.pages[st.k])
      st1 == [st EXCEPT !.cands = @ \o found]
  IN IF page.failed THEN Settle(M, w, st.index, FALSE, EmptyText)
     ELSE IF st.k < Len(st.pages)
     THEN [M EXCEPT !.netRequests = @ + 1, !.wk[w] = [st1 EXCEPT !.k = @ + 1]]
     ELSE AfterPages(M, w, st1)

\* the continuation of `await fetchText(sourcePage)`
OnPage(M, w, page) ==
  LET st == M.wk[w]
      found == IF page.failed THEN << >> ELSE collectImageCandidates(page.body, st.pages[st.k])
      st1 == [st EXCEPT !.cands = @ \o found]
  IN IF st.k < Len(st.pages)
     THEN [M EXCEPT !.netRequests = @ + 1, !.wk[w] = [st1 EXCEPT !.k = @ + 1]]
     ELSE AfterPages(M, w, st1)

\* the probe loop behind `await probeImage(candidate.url)`
Judge(M, w, probe) ==
  LET st == M.wk[w]
      candidate == st.ranked[st.pos]
      M1 == [M EXCEPT !.judged = @ \cup {[row |-> M.pending[st.index], url |-> candidate.url,
                                           score |-> candidate.key, image |-> probe.image,
                                           contentLength |-> probe.contentLength,
                                           accepted |-> Accepted(candidate, probe)]}]
  IN IF Accepted(candidate, probe)
     THEN Settle(M1, w, st.index, FALSE, <<candidate.url>>)
     ELSE ProbeFrom(M1, w, st, st.pos + 1)

\* OnHead without the second attempt: what probeHead gave is the result
OnHeadGivesUp(M, w, probe) == Judge(M, w, probe)

\* probeImage behind probeHead: the probe if there is one, else the ranged GET
OnHead(M, w, probe) ==
  IF probe.image THEN Judge(M, w, probe)
  ELSE [M EXCEPT !.netRequests = @ + 1, !.wk[w].pc = "get"]

\* OnGet with the length of the partial response left out of the probe
OnGetWithoutLength(M, w, probe) == Judge(M, w, [probe EXCEPT !.contentLength = 0])

\* probeImage behind probeGet
OnGet(M, w, probe) == Judge(M, w, probe)

\* resolveImageForRow up to its first request
StartResolve(M, w, index) ==
  LET row == M.rows[M.pending[index]]
      officialUrl == safeHttpUrl(row.official_url)
      officialHost == ParseText(officialUrl).hostname
  IN IF officialUrl = EmptyText THEN Settle(M, w, index, FALSE, EmptyText)
     ELSE IF \E hostHint \in DISALLOWED_SOURCE_HOST_HINTS : hasHostHint(officialHost, hostHint)
          THEN Settle(M, w, index, FALSE, EmptyText)
     ELSE IF officialUrl[1] \in faulty THEN Settle(M, w, index, TRUE, EmptyText)
     ELSE [M EXCEPT !.netRequests = @ + 1,
                    !.wk[w] = [Idle EXCEPT !.pc = "page", !.index = index,
                                           !.pages = sourcePages(officialUrl[1]), !.k = 1]]

\* The callback of main up to its first await.
StartWorker(M, w, index) ==
  LET ri == M.pending[index]
      override == curatedOverride(M.rows[ri])
  IN IF override # EmptyText
     THEN [M EXCEPT !.rows[ri].image_url = override,
                    !.updatedCount = @ + 1,
                    !.curatedCount = @ + 1,
                    !.writes[ri] = Append(@, [by |-> "curated", url |-> override]),
                    !.wk[w] = Returned(index)]
     ELSE StartResolve(M, w, index)

\* ---------------------------------------------------------------------------
\* runPool
\* ---------------------------------------------------------------------------
\* index = cursor; cursor += 1
TakeIndex(M, w) ==
  [M EXCEPT !.cursor = @ + 1,
            !.taken = IF M.cursor <= Len(M.pending) THEN Append(@, <<w, M.cursor>>) ELSE @]

\* Runner with the bound of the loop off by one: it returns at the last index
RunnerStopsEarly(M, w) ==
  LET index == M.cursor
      M1 == TakeIndex(M, w)
  IN IF index >= Len(M.pending)
     THEN [M1 EXCEPT !.wk[w] = Finished]
     ELSE StartWorker(M1, w, index)

\* Runner without the return of its loop: past the last index it never returns
RunnerNeverReturns(M, w) ==
  LET index == M.cursor
      M1 == TakeIndex(M, w)
  IN IF index > Len(M.pending)
     THEN [M1 EXCEPT !.wk[w] = Idle]
     ELSE StartWorker(M1, w, index)

\* One turn of the loop of a runner, up to its await.
Runner(M, w) ==
  LET index == M.cursor
      M1 == TakeIndex(M, w)
  IN IF index > Len(M.pending)
     THEN [M1 EXCEPT !.wk[w] = Finished]
     ELSE StartWorker(M1, w, index)

RECURSIVE StartRunners(_, _, _)
\* Array.from({ length }, () => runner()): the runners start one after the other
StartRunners(M, w, n) ==
  IF w > n THEN M ELSE StartRunners(Runner(M, w), w + 1, n)

Workers == 1..Max(1, concurrency)

Apply(M) ==
  /\ workRows' = M.rows
  /\ cursor' = M.cursor
  /\ results' = M.results
  /\ wk' = M.wk
  /\ updatedCount' = M.updatedCount
  /\ curatedCount' = M.curatedCount
  /\ failedCount' = M.failedCount
  /\ netRequests' = M.netRequests
  /\ taken' = M.taken
  /\ writes' = M.writes
  /\ judged' = M.judged

\* The network answers; the same request is answered the same way every time.
Answer(request, effect) ==
  /\ request \in DOMAIN net => net[request] = effect
  /\ net' = (request :> effect) @@ net

afterPool == <<manufacturerFallbackCount, csvOut, csvWrites, metaOut, metaWrites, exitCode, stderr>>

\* fetch settles inside withTimeout, which clears its timer; fetchText then
\* throws, or awaits response.text() and returns. A body that stalls leaves the
\* runner in that await ("body"): nothing is left to end it.
FetchDone(w) ==
  /\ pc = "pool" /\ w \in Workers /\ wk[w].pc = "page"
  /\ \E response \in PageResponses(wk[w].pages[wk[w].k], servers.pages) :
       IF response.kind = "stalled"
       THEN /\ wk' = [wk EXCEPT ![w].pc = "body"]
            /\ UNCHANGED <<net, workRows, cursor, results, updatedCount, curatedCount,
                           failedCount, netRequests, taken, writes, judged>>
       ELSE /\ Answer(<<"GET", wk[w].pages[wk[w].k]>>, fetchText(response))
            /\ Apply(OnPage(Machine, w, fetchText(response)))
  /\ UNCHANGED <<pc, inputs, browser, candidates, afterPool>>

HeadDone(w) ==
  /\ pc = "pool" /\ w \in Workers /\ wk[w].pc = "head"
  /\ \E response \in ProbeResponses(200, servers.probes, servers.head) :
       /\ Answer(<<"HEAD", wk[w].ranked[wk[w].pos].url>>, probeHead(response))
       /\ Apply(OnHead(Machine, w, probeHead(response)))
  /\ UNCHANGED <<pc, inputs, browser, candidates, afterPool>>

GetDone(w) ==
  /\ pc = "pool" /\ w \in Workers /\ wk[w].pc = "get"
  /\ \E response \in ProbeResponses(206, servers.probes, servers.range) :
       /\ Answer(<<"RANGE", wk[w].ranked[wk[w].pos].url>>, probeGet(response))
       /\ Apply(OnGet(Machine, w, probeGet(response)))
  /\ UNCHANGED <<pc, inputs, browser, candidates, afterPool>>

\* results[index] = await worker(items[index], index), and the next turn of the loop
Resume(w) ==
  /\ pc = "pool" /\ w \in Workers /\ wk[w].pc = "ret"
  /\ Apply(Runner([Machine EXCEPT !.results[wk[w].index] = candidates[wk[w].index]], w))
  /\ UNCHANGED <<pc, inputs, browser, net, candidates, afterPool>>

\* ---------------------------------------------------------------------------
\* main
\* ---------------------------------------------------------------------------
\* ClearedRows without the loop that clears image_url
ClearedRowsKept(rows) == rows

\* rows.map((row) => ({ ...row })) with image_url cleared
ClearedRows(rows) == [i \in 1..Len(rows) |-> [rows[i] EXCEPT !.image_url = EmptyText]]

RECURSIVE PendingFrom(_, _)
PendingFrom(rows, i) ==
  IF i > Len(rows) THEN << >>
  ELSE (IF safeHttpUrl(rows[i].official_url) # EmptyText THEN <<i>> ELSE << >>)
         \o PendingFrom(rows, i + 1)

\* workRows.filter((row) => safeHttpUrl(row.official_url)), as indices into workRows
PendingRows(rows) == PendingFrom(rows, 1)

\* ParseFails without the check of parsed.errors: main goes on with the rows
ParseErrorsIgnored ==
  /\ pc = "start" /\ parseErrors
  /\ pc' = "pool"
  /\ LET rows == ClearedRows(table)
         pending == PendingRows(rows)
         M0 == [rows |-> rows, pending |-> pending, cursor |-> 1,
                results |-> [i \in 1..Len(pending) |-> 0],
                wk |-> [w \in Workers |-> Idle],
                updatedCount |-> 0, curatedCount |-> 0, failedCount |-> 0,
                netRequests |-> 0, taken |-> << >>,
                writes |-> [i \in 1..Len(rows) |-> << >>], judged |-> {}]
     IN /\ candidates' = pending
        /\ Apply(StartRunners(M0, 1, Max(1, concurrency)))
  /\ UNCHANGED <<inputs, browser, net, afterPool>>

\* parseCsv throws: main().catch prints the error and sets the exit code
ParseFails ==
  /\ pc = "start" /\ parseErrors
  /\ pc' = "aborted"
  /\ exitCode' = 1
  /\ stderr' = "parse error"
  /\ UNCHANGED <<inputs, browser, net, workRows, candidates, cursor, results, wk, updatedCount,
                 curatedCount, manufacturerFallbackCount, failedCount, netRequests, taken,
                 writes, judged, csvOut, csvWrites, metaOut, metaWrites>>

\* parseCsv returns: main copies the rows, picks the rows to resolve and starts the pool
ParseAndStart ==
  /\ pc = "start" /\ ~parseErrors
  /\ pc' = "pool"
  /\ LET rows == ClearedRows(table)
         pending == PendingRows(rows)
         M0 == [rows |-> rows, pending |-> pending, cursor |-> 1,
                results |-> [i \in 1..Len(pending) |-> 0],
                wk |-> [w \in Workers |-> Idle],
                updatedCount |-> 0, curatedCount |-> 0, failedCount |-> 0,
                netRequests |-> 0, taken |-> << >>,
                writes |-> [i \in 1..Len(rows) |-> << >>], judged |-> {}]
     IN /\ candidates' = pending
        /\ Apply(StartRunners(M0, 1, Max(1, concurrency)))
  /\ UNCHANGED <<inputs, browser, net, afterPool>>

\* the row of results that byId holds for this id: the last one, 0 if there is none
LastResultWithId(rows, res, id) ==
  LET hits == {j \in 1..Len(res) : res[j] # 0 /\ IdOf(rows[res[j]]) = id}
  IN IF hits = {} THEN 0 ELSE res[CHOOSE j \in hits : \A h \in hits : h <= j]

\* the merge of the results into workRows by id
MergeById(rows, res) ==
  [i \in 1..Len(rows) |->
     LET updated == LastResultWithId(rows, res, IdOf(rows[i]))
     IN IF updated # 0
        THEN [rows[i] EXCEPT !.image_url = sanitize(rows[updated].image_url)]
        ELSE rows[i]]

manufacturerKeyOf(row) == toLowerCase(sanitize(row.manufacturer))

\* FirstDonor without the `!manufacturerFallbacks.has(manufacturerKey)` of the
\* index loop: the last row with an image wins
LastDonor(rows, manufacturerKey) ==
  LET donors == {i \in 1..Len(rows) :
                   /\ toLowerCase(sanitize(rows[i].manufacturer)) = manufacturerKey
                   /\ manufacturerKey # EmptyText
                   /\ safeHttpUrl(rows[i].image_url) # EmptyText}
  IN IF donors = {} THEN 0 ELSE CHOOSE i \in donors : \A d \in donors : i >= d

\* the fallback index: manufacturer key -> image of the first row that has one
\* (0 for "no entry", else the index of the donor row)
FirstDonor(rows, manufacturerKey) ==
  LET donors == {i \in 1..Len(rows) :
                   /\ manufacturerKeyOf(rows[i]) = manufacturerKey
                   /\ manufacturerKey # EmptyText
                   /\ safeHttpUrl(rows[i].image_url) # EmptyText}
  IN IF donors = {} THEN 0 ELSE CHOOSE i \in donors : \A d \in donors : i <= d

manufacturerFallbacks(rows, manufacturerKey) ==
  IF FirstDonor(rows, manufacturerKey) = 0 THEN EmptyText
  ELSE safeHttpUrl(rows[FirstDonor(rows, manufacturerKey)].image_url)

\* the row gets the image of its manufacturer in the backfill loop
Backfilled(rows, i) ==
  /\ safeHttpUrl(rows[i].image_url) = EmptyText
  /\ manufacturerFallbacks(rows, manufacturerKeyOf(rows[i])) # EmptyText

\* the rows behind the backfill loop (the index is built before the loop starts)
Backfill(rows) ==
  [i \in 1..Len(rows) |->
     IF Backfilled(rows, i)
     THEN [rows[i] EXCEPT !.image_url = manufacturerFallbacks(rows, manufacturerKeyOf(rows[i]))]
     ELSE rows[i]]

\* Promise.race for Promise.all: the pool returns with its first runner
PoolReturnedWithFirst == \E w \in Workers : wk[w].pc = "done"

\* await Promise.all(workers): every runner has returned
PoolReturned == \A w \in Workers : wk[w].pc = "done"

\* runPool returns (every runner has returned); main merges the results by id
Merge ==
  /\ pc = "pool" /\ PoolReturned
  /\ pc' = "merged"
  /\ workRows' = MergeById(workRows, results)
  /\ writes' = [i \in 1..Len(workRows) |->
                  IF MergeById(workRows, results)[i].image_url # workRows[i].image_url
                  THEN Append(writes[i], [by |-> "merge",
                                          url |-> MergeById(workRows, results)[i].image_url])
                  ELSE writes[i]]
  /\ UNCHANGED <<inputs, browser, net, candidates, cursor, results, wk, updatedCount, curatedCount,
                 manufacturerFallbackCount, failedCount, netRequests, taken, judged, afterPool>>

\* main builds the fallback index and backfills the rows without an image
Fallback ==
  /\ pc = "merged"
  /\ pc' = "filled"
  /\ workRows' = Backfill(workRows)
  /\ LET n == Cardinality({i \in 1..Len(workRows) : Backfilled(workRows, i)})
     IN /\ updatedCount' = updatedCount + n
        /\ manufacturerFallbackCount' = manufacturerFallbackCount + n
  /\ writes' = [i \in 1..Len(workRows) |->
                  IF Backfilled(workRows, i)
                  THEN Append(writes[i], [by |-> "fallback",
                                          url |-> Backfill(workRows)[i].image_url])
                  ELSE writes[i]]
  /\ UNCHANGED <<inputs, browser, net, candidates, cursor, results, wk, curatedCount, failedCount,
                 netRequests, taken, judged, csvOut, csvWrites, metaOut, metaWrites, exitCode, stderr>>

\* sanitizeRowsForCsv: every field of every row, sanitized
sanitizeRowsForCsv(rows) ==
  [i \in 1..Len(rows) |->
     [id |-> sanitize(rows[i].id), name |-> sanitize(rows[i].name),
      short_name |-> sanitize(rows[i].short_name),
      manufacturer |-> sanitize(rows[i].manufacturer),
      official_url |-> sanitize(rows[i].official_url),
      image_url |-> sanitize(rows[i].image_url)]]

WriteCsv ==
  /\ pc = "filled"
  /\ pc' = "written"
  /\ csvOut' = sanitizeRowsForCsv(workRows)
  /\ csvWrites' = csvWrites + 1
  /\ UNCHANGED <<inputs, browser, net, workRows, candidates, cursor, results, wk, updatedCount,
                 curatedCount, manufacturerFallbackCount, failedCount, netRequests, taken,
                 writes, judged, metaOut, metaWrites, exitCode, stderr>>

\* no metadata file, or one that does not parse: updateMetadata starts from {}
NoMetadata == << >>

\* what new Date().toISOString() may give
Timestamps == {"2026-03-01T10:00:00.000Z", "2026-03-01T10:00:01.000Z"}

\* the keys updateMetadata assigns
PipelineKeys ==
  {"manufacturer_image_enriched_at", "manufacturer_image_links",
   "manufacturer_image_curated_overrides", "manufacturer_image_manufacturer_fallbacks",
   "manufacturer_image_note"}

\* updateMetadata writing the keys of the pipeline into an empty object, without
\* reading the file
updateMetadataFromScratch(metadata, rows, stats, now) ==
  [key \in PipelineKeys |->
     CASE key = "manufacturer_image_enriched_at" -> now
       [] key = "manufacturer_image_links"
            -> Cardinality({i \in 1..Len(rows) : safeHttpUrl(rows[i].image_url) # EmptyText})
       [] key = "manufacturer_image_curated_overrides" -> stats.curatedCount
       [] key = "manufacturer_image_manufacturer_fallbacks" -> stats.manufacturerFallbackCount
       [] key = "manufacturer_image_note" -> "Image links are derived from official manufacturer pages with curated per-model overrides and same-manufacturer fallback when needed."]

\* the object updateMetadata writes: the one it read, with its own keys assigned
updateMetadata(metadata, rows, stats, now) ==
  [key \in DOMAIN metadata \cup PipelineKeys |->
     CASE key = "manufacturer_image_enriched_at" -> now
       [] key = "manufacturer_image_links"
            -> Cardinality({i \in 1..Len(rows) : safeHttpUrl(rows[i].image_url) # EmptyText})
       [] key = "manufacturer_image_curated_overrides" -> stats.curatedCount
       [] key = "manufacturer_image_manufacturer_fallbacks" -> stats.manufacturerFallbackCount
       [] key = "manufacturer_image_note" -> "Image links are derived from official manufacturer pages with curated per-model overrides and same-manufacturer fallback when needed."
       [] OTHER -> metadata[key]]

UpdateMetadata ==
  /\ pc = "written"
  /\ pc' = "done"
  /\ \E now \in Timestamps :
       metaOut' = updateMetadata(metaOut, workRows,
                                 [curatedCount |-> curatedCount,
                                  manufacturerFallbackCount |-> manufacturerFallbackCount], now)
  /\ metaWrites' = metaWrites + 1
  /\ UNCHANGED <<inputs, browser, net, workRows, candidates, cursor, results, wk, updatedCount,
                 curatedCount, manufacturerFallbackCount, failedCount, netRequests, taken,
                 writes, judged, csvOut, csvWrites, exitCode, stderr>>


\* ---------------------------------------------------------------------------
\* The web page: the compare selection (main.js)
\* ---------------------------------------------------------------------------
\* A model id is a text; state.rows is given by the set of the __rowId of its rows.
\* The value of the selectedIds parameter is given by the entries between its commas.

\* split(','), trim, filter(Boolean), Set, slice(0, COMPARE_LIMIT)
parseSelectedIdsParam(value) ==
  LET entries == [i \in 1..Len(value) |-> trim(value[i])]
      ids == Distinct(SelectSeq(entries, LAMBDA entry : entry # EmptyText))
  IN SubSeq(ids, 1, Min(COMPARE_LIMIT, Len(ids)))

pruneSelectedIdsToKnownRows(st) ==
  LET ids == SelectSeq(Distinct(st.selectedIds), LAMBDA id : id \in st.rows)
      selectedIds == SubSeq(ids, 1, Min(COMPARE_LIMIT, Len(ids)))
  IN [st EXCEPT !.selectedIds = selectedIds,
                !.compareMode = IF selectedIds = << >> THEN FALSE ELSE @]

\* what render does to the state: compare mode ends when no selected row is left
render(st) ==
  IF st.compareMode /\ SelectSeq(st.selectedIds, LAMBDA id : id \in st.rows) = << >>
  THEN [st EXCEPT !.compareMode = FALSE]
  ELSE st

\* state.selectedIds.filter((id) => id !== modelId), and what the handlers do behind it
WithoutId(st, modelId) ==
  LET selectedIds == SelectSeq(st.selectedIds, LAMBDA id : id # modelId)
  IN [st EXCEPT !.selectedIds = selectedIds,
                !.compareNotice = "",
                !.compareMode = IF selectedIds = << >> THEN FALSE ELSE @]

\* compareToggle with `>` for `>=` in the test of the limit
compareToggleOffByOne(st, modelId, isChecked) ==
  IF isChecked
  THEN IF \E i \in 1..Len(st.selectedIds) : st.selectedIds[i] = modelId THEN st
       ELSE IF Len(st.selectedIds) > COMPARE_LIMIT
            THEN [st EXCEPT !.compareNotice = "Maximal 6 Modelle gleichzeitig im Vergleich."]
            ELSE [st EXCEPT !.selectedIds = Append(@, modelId), !.compareNotice = ""]
  ELSE WithoutId(st, modelId)

\* the change handler of a compare checkbox, up to its render
compareToggle(st, modelId, isChecked) ==
  IF isChecked
  THEN IF \E i \in 1..Len(st.selectedIds) : st.selectedIds[i] = modelId THEN st
       ELSE IF Len(st.selectedIds) >= COMPARE_LIMIT
            THEN [st EXCEPT !.compareNotice = "Maximal 6 Modelle gleichzeitig im Vergleich."]
            ELSE [st EXCEPT !.selectedIds = Append(@, modelId), !.compareNotice = ""]
  ELSE WithoutId(st, modelId)

\* the ids of the catalog the page loads
CatalogIds ==
  [i \in 1..MaxModels |-> <<(<<"g1", "g2", "g3", "g4", "g5", "g6", "g7", "g8", "g9">>)[i]>>]

\* init up to its first await: applyStateFromUrl
\* selectedIds parameters: none; padded, empty and repeated entries; more
\* entries than the limit; an id no row has, then a repeated one, then the catalog
ApplyStateFromUrl ==
  /\ loaded = "boot"
  /\ loaded' = "loading"
  /\ \E value \in
       {<< << >> >>,
        << <<"g1">>, <<" ", "g1">>, << >>, <<"g2", " ">> >>,
        CatalogIds \o << <<"zz">> >>,
        << <<"zz">>, <<"g1">>, <<"g1">> >> \o CatalogIds}, compareMode \in BOOLEAN :
       state' = [state EXCEPT !.compareMode = compareMode,
                              !.selectedIds = parseSelectedIdsParam(value)]
  /\ lastEvent' = [type |-> "url", fresh |-> FALSE]
  /\ UNCHANGED script

\* init behind the load of the catalog: the rows, the prune, the first render
RowsLoaded ==
  /\ loaded = "loading"
  /\ loaded' = "ready"
  /\ \E rows \in {{CatalogIds[i] : i \in 1..MaxModels}, {CatalogIds[1], CatalogIds[2]}} :
       state' = render([pruneSelectedIdsToKnownRows([state EXCEPT !.rows = rows])
                          EXCEPT !.compareNotice = ""])
  /\ lastEvent' = [type |-> "load", fresh |-> FALSE]
  /\ UNCHANGED script

\* the catalog does not load: init shows the error, no handler is attached
LoadFails ==
  /\ loaded = "loading"
  /\ loaded' = "failed"
  /\ lastEvent' = [type |-> "error", fresh |-> FALSE]
  /\ UNCHANGED <<script, state>>

\* a compare checkbox changes (the boxes are those of the rows shown)
CompareToggle ==
  /\ loaded = "ready"
  /\ \E modelId \in state.rows, isChecked \in BOOLEAN :
       /\ state' = render(compareToggle(state, modelId, isChecked))
       /\ lastEvent' = [type |-> IF isChecked THEN "check" ELSE "uncheck",
                        fresh |-> ~\E i \in 1..Len(state.selectedIds) : state.selectedIds[i] = modelId]
  /\ UNCHANGED <<script, loaded>>

\* the remove button of a selected row
RemoveCompare ==
  /\ loaded = "ready"
  /\ \E i \in 1..Len(state.selectedIds) :
       /\ state.selectedIds[i] \in state.rows
       /\ state' = render(WithoutId(state, state.selectedIds[i]))
  /\ lastEvent' = [type |-> "remove", fresh |-> FALSE]
  /\ UNCHANGED <<script, loaded>>

ClearCompare ==
  /\ loaded = "ready"
  /\ state' = render([state EXCEPT !.selectedIds = << >>, !.compareMode = FALSE,
                                   !.compareNotice = ""])
  /\ lastEvent' = [type |-> "clear", fresh |-> FALSE]
  /\ UNCHANGED <<script, loaded>>

ToggleCompareMode ==
  /\ loaded = "ready"
  /\ state.selectedIds # << >>
  /\ state' = render([state EXCEPT !.compareMode = ~@])
  /\ lastEvent' = [type |-> "mode", fresh |-> FALSE]
  /\ UNCHANGED <<script, loaded>>

\* the clear-filters button: of the compare fields it resets the mode and the notice
ClearFilters ==
  /\ loaded = "ready"
  /\ state' = render([state EXCEPT !.compareMode = FALSE, !.compareNotice = ""])
  /\ lastEvent' = [type |-> "filters", fresh |-> FALSE]
  /\ UNCHANGED <<script, loaded>>

BrowserNext ==
  \/ ApplyStateFromUrl
  \/ RowsLoaded
  \/ LoadFails
  \/ CompareToggle
  \/ RemoveCompare
  \/ ClearCompare
  \/ ToggleCompareMode
  \/ ClearFilters


\* ---------------------------------------------------------------------------
\* The inputs of the model
\* ---------------------------------------------------------------------------
ManufacturerValues == {<<"Acme">>, <<"acme", " ">>, << >>}

\* what the CSV holds of a row: the fields the pipeline reads or writes
Row(id, manufacturer, officialUrl) ==
  [id |-> id, name |-> <<"Acme", " ", "Hero-X1">>, short_name |-> <<"One">>,
   manufacturer |-> manufacturer, official_url |-> officialUrl,
   image_url |-> <<"https://old.example/stale.png">>]

\* the official URLs of the table that resolveImageForRow would read
OfficialPages(rows) ==
  {safeHttpUrl(rows[i].official_url)[1] :
     i \in {j \in 1..Len(rows) : safeHttpUrl(rows[j].official_url) # EmptyText}}

\* sites and image servers that may fail in every way
AnyServers ==
  [pages |-> {"error", "404", "200"}, probes |-> {"error", "404", "html", "image"},
   head |-> {"", "1500"}, range |-> {""}]

\* main has not started
BlankRun ==
  \* the page is loaded: the state object as it is declared, init has not run
  /\ loaded = "boot"
  /\ state = [rows |-> {}, compareMode |-> FALSE, selectedIds |-> << >>, compareNotice |-> ""]
  /\ lastEvent = [type |-> "none", fresh |-> FALSE]
  /\ pc = "start"
  /\ net = << >>
  /\ workRows = << >>
  /\ candidates = << >>
  /\ cursor = 1
  /\ results = << >>
  /\ wk = << >>
  /\ updatedCount = 0
  /\ curatedCount = 0
  /\ manufacturerFallbackCount = 0
  /\ failedCount = 0
  /\ netRequests = 0
  /\ taken = << >>
  /\ writes = << >>
  /\ judged = {}
  /\ csvOut = << >>
  /\ csvWrites = 0
  /\ metaWrites = 0
  /\ exitCode = 0
  /\ stderr = ""

\* a CSV file Papa.parse reports an error for (what it holds does not matter then)
Unreadable ==
  /\ parseErrors = TRUE
  /\ table = <<Row(<<"a1">>, <<"Acme">>, <<"https://vendor.example/product">>)>>
  /\ concurrency = 1
  /\ faulty = {}
  /\ servers = AnyServers

\* The start of a run: main has not started; the CSV file is unreadable, or it
\* holds one of `tables`; the CONCURRENCY setting is one of `runners`; the
\* resolution of any set of official pages may throw if `mayThrow`; the sites
\* answer as one of `answers` says; the metadata file is one of `files`.
Start(tables, runners, mayThrow, answers, files) ==
  /\ BlankRun
  /\ \/ Unreadable /\ metaOut = NoMetadata
     \/ /\ parseErrors = FALSE
        /\ table \in tables
        /\ concurrency \in runners
        /\ faulty \in IF mayThrow THEN SUBSET OfficialPages(table) ELSE {{}}
        /\ servers \in answers
        /\ metaOut \in files

Next ==
  \/ ParseFails
  \/ ParseAndStart
  \/ \E w \in 1..MaxWorkers : FetchDone(w)
  \/ \E w \in 1..MaxWorkers : HeadDone(w)
  \/ \E w \in 1..MaxWorkers : GetDone(w)
  \/ \E w \in 1..MaxWorkers : Resume(w)
  \/ Merge
  \/ Fallback
  \/ WriteCsv
  \/ UpdateMetadata

\* the tables of the model: ids with and without an override (one of them padded),
\* manufacturers that normalize to the same key or to none, official URLs that are
\* missing, not http(s), or the page of one of two sites
Spec ==
  /\ Start(UNION {[1..n -> {Row(id, manufacturer, officialUrl) :
                              id \in {<<"vH20M2KPj">>, <<" ", "vH20M2KPj">>, <<"a1">>},
                              manufacturer \in ManufacturerValues,
                              officialUrl \in {<< >>, <<"ftp://vendor.example/product">>,
                                               <<"https://vendor.example/product">>,
                                               <<"https://acme.example/glasses">>}}]
                    : n \in 1..MaxRows},
           1..MaxWorkers, TRUE, {AnyServers}, {NoMetadata})
  /\ [][Next]_vars


\* --- the pool: more entries than runners, sites that answer or do not ---
PoolServers ==
  [pages |-> {"error", "200"}, probes |-> {"html", "image"}, head |-> {""}, range |-> {""}]

PoolSpec ==
  /\ Start(UNION {[1..n -> {Row(id, <<"Acme">>, officialUrl) :
                              id \in {<<"a1">>, <<"vH20M2KPj">>},
                              officialUrl \in {<<"https://vendor.example/product">>,
                                               <<"https://acme.example/glasses">>}}]
                    : n \in MaxPoolRows..MaxPoolRows},
           1..MaxWorkers, TRUE, {PoolServers}, {NoMetadata})
  /\ [][Next]_vars

\* --- the whole run to its end: entries with and without a page, an override,
\* an error; every step is taken in the end, as the event loop runs every
\* continuation whose request has settled and withTimeout settles every request ---
FairTables ==
  UNION {[1..n -> {Row(id, <<"Acme">>, officialUrl) :
                     id \in {<<"a1">>, <<"vH20M2KPj">>},
                     officialUrl \in {<< >>, <<"https://vendor.example/product">>,
                                      <<"https://acme.example/glasses">>}}]
           : n \in 1..MaxRows}

\* ENABLED <<Next>>_vars, written out: main has a step to take, or a runner waits
\* for a request to settle or for its turn to go on, or every runner has returned
NextEnabled ==
  \/ pc \in {"start", "merged", "filled", "written"}
  \/ /\ pc = "pool"
     /\ \/ \E w \in DOMAIN wk : wk[w].pc \in {"page", "head", "get", "ret"}
        \/ \A w \in DOMAIN wk : wk[w].pc = "done"

\* Weak fairness of Next: a run that can take a step takes one in the end. The
\* last conjunct is WF_vars(Next) with NextEnabled for ENABLED <<Next>>_vars.
FairSpec ==
  /\ Start(FairTables, 1..MaxWorkers, TRUE, {PoolServers}, {NoMetadata})
  /\ [][Next]_vars
  /\ WF_vars(ParseFails)
  /\ ([]<>(~NextEnabled) \/ []<><<Next>>_vars)

\* --- the fallback pass: several rows of several manufacturers, one runner ---
PositionIds == <<"m1", "m2", "m3", "m4", "m5">>

FallbackSpec ==
  /\ Start(UNION {{t \in [1..n -> {Row(<<id>>, manufacturer, officialUrl) :
                                     id \in {PositionIds[i] : i \in 1..n},
                                     manufacturer \in ManufacturerValues \cup {<<"Vuzix">>},
                                     officialUrl \in {<< >>, <<"https://vendor.example/product">>,
                                                      <<"https://acme.example/glasses">>}}] :
                     \A i \in 1..n : t[i].id = <<PositionIds[i]>>}
                    : n \in 1..MaxFallbackRows},
           {1}, FALSE,
           \* image servers that answer the HEAD probe with the image, or at most the
           \* ranged GET
           {[pages |-> {"200"}, probes |-> {"image"}, head |-> {""}, range |-> {""}],
            [pages |-> {"200"}, probes |-> {"html", "image"}, head |-> {}, range |-> {""}]},
           {NoMetadata})
  /\ [][Next]_vars

\* --- one entry, image servers that report payloads of every size ---
ResolveSpec ==
  /\ Start({<<Row(<<"a1">>, <<"Acme">>, officialUrl)>> :
              officialUrl \in {<<"https://vendor.example/product">>,
                               <<"https://acme.example/glasses">>}},
           {1}, FALSE,
           {[AnyServers EXCEPT !.head = {"", "2", "1500", "1999", "2000", "12000"},
                               !.range = {"", "2", "1999", "2000"}]},
           {NoMetadata})
  /\ [][Next]_vars

\* --- one entry whose page names an image on a social-network asset host next
\* to one of its own site; the site is vendor.example or www.vuzix.com ---
ScoreSpec ==
  /\ Start({<<Row(<<"a1">>, <<"Acme">>, officialUrl)>> :
              officialUrl \in {<<"https://vendor.example/press">>,
                               <<"https://www.vuzix.com/pages/vuzix-m100">>}},
           {1}, FALSE, {AnyServers}, {NoMetadata})
  /\ [][Next]_vars


\* --- the metadata file: none, the one the catalog generator writes, or the one
\* an earlier run of this script left ---
GeneratedMetadata ==
  [generated_at |-> "2026-02-01T08:00:00.000Z", records |-> 2, official_shop_links |-> 1,
   note |-> "Curated local dataset without external comparison-provider links; image_url can be enriched from official manufacturer pages."]

MetaSpec ==
  /\ Start(FairTables, {1}, FALSE, {PoolServers},
           {NoMetadata,
            GeneratedMetadata,
            updateMetadata(GeneratedMetadata, << >>,
                           [curatedCount |-> 3, manufacturerFallbackCount |-> 4],
                           "2026-02-02T09:00:00.000Z")})
  /\ [][Next]_vars


\* --- tables whose image_url cells hold nothing, an image no page names, or the
\* image a resolution can come up with ---
CellSpec ==
  /\ Start(UNION {[1..n -> {[Row(id, manufacturer, officialUrl) EXCEPT !.image_url = imageUrl] :
                              id \in {<<"a1">>, <<"vH20M2KPj">>},
                              manufacturer \in {<<"Acme">>, << >>},
                              officialUrl \in {<< >>, <<"https://vendor.example/product">>},
                              imageUrl \in {<< >>, <<"https://old.example/stale.png">>,
                                            <<"https://cdn.shop.example/media/front.png">>}}]
                    : n \in 1..MaxRows},
           {1}, FALSE, {PoolServers}, {NoMetadata})
  /\ [][Next]_vars


\* --- the web page on its own; the script is not run (its table is the
\* unreadable one) ---
BrowserSpec == Start({}, {}, FALSE, {}, {}) /\ [][BrowserNext]_vars


\* --- one entry whose pages name candidates of falling, rising and equal scores;
\* image servers that answer or not, with payloads below and above the first
\* step of the size bonus ---
RankSpec ==
  /\ Start({<<Row(<<"a1">>, <<"Acme">>, officialUrl)>> :
              officialUrl \in {<<"https://vendor.example/press">>,
                               <<"https://acme.example/glasses">>}},
           {1}, FALSE,
           {[pages |-> {"error", "200"}, probes |-> {"html", "image"},
             head |-> {"", "1500", "12000"}, range |-> {"", "12000"}]},
           {NoMetadata})
  /\ [][Next]_vars


\* --- one entry whose pages name more candidates than the probe loop looks at;
\* image servers that answer with a page or the image ---
GallerySpec ==
  /\ Start({<<Row(<<"a1">>, <<"Acme">>, <<"https://vendor.example/gallery">>)>>},
           {1}, FALSE, {PoolServers}, {NoMetadata})
  /\ [][Next]_vars


\* --- one entry whose official URL is a page that names the image its origin
\* root names, or the origin root itself (with and without the slash), or a
\* page that shares no image with the root ---
SourcesSpec ==
  /\ Start({<<Row(<<"a1">>, <<"Acme">>, officialUrl)>> :
              officialUrl \in {<<"https://vendor.example/shop">>,
                               <<"https://vendor.example/">>,
                               <<"https://vendor.example">>,
                               <<"https://vendor.example/product">>}},
           {1}, FALSE, {PoolServers}, {NoMetadata})
  /\ [][Next]_vars


\* --- two entries and one or two runners; sites that give no response (a
\* network error, or a stall that withTimeout aborts), answer, or stall in the
\* body of their answer ---
StallSpec ==
  /\ Start([1..MaxRows -> {Row(<<"a1">>, <<"Acme">>, officialUrl) :
                             officialUrl \in {<<"https://vendor.example/product">>,
                                              <<"https://acme.example/glasses">>}}],
           1..MaxWorkers, FALSE,
           {[PoolServers EXCEPT !.pages = {"error", "200", "stalled"}]}, {NoMetadata})
  /\ [][Next]_vars


\* --- one entry whose official page is one of several documents with
\* candidate lists and with many img elements ---
DocumentSpec ==
  /\ Start({<<Row(<<"a1">>, <<"Acme">>, <<"https://vendor.example/lookbook">>)>>},
           {1}, FALSE, {PoolServers}, {NoMetadata})
  /\ [][Next]_vars

\* ---------------------------------------------------------------------------
\* The run with its entries resolved one after the other
\* ---------------------------------------------------------------------------
\* probeImage under the answers the network gave
probeImage(url) ==
  IF net[<<"HEAD", url>>].image THEN net[<<"HEAD", url>>] ELSE net[<<"RANGE", url>>]

RECURSIVE FirstAccepted(_, _)
\* the probe loop of resolveImageForRow
FirstAccepted(ranked, pos) ==
  IF pos > Len(ranked) THEN EmptyText
  ELSE IF HardBlocked(ranked[pos].url) THEN FirstAccepted(ranked, pos + 1)
  ELSE IF Accepted(ranked[pos], probeImage(ranked[pos].url)) THEN <<ranked[pos].url>>
  ELSE FirstAccepted(ranked, pos + 1)

\* resolveImageForRow under the answers the network gave
resolveImageForRow(row) ==
  LET officialUrl == safeHttpUrl(row.official_url)
      officialHost == ParseText(officialUrl).hostname
      pages == sourcePages(officialUrl[1])
      found == Flatten([k \in 1..Len(pages) |->
                          IF net[<<"GET", pages[k]>>].failed THEN << >>
                          ELSE collectImageCandidates(net[<<"GET", pages[k]>>].body, pages[k])])
  IN IF officialUrl = EmptyText THEN EmptyText
     ELSE IF \E hostHint \in DISALLOWED_SOURCE_HOST_HINTS : hasHostHint(officialHost, hostHint)
          THEN EmptyText
     ELSE IF found = << >> THEN EmptyText
     ELSE FirstAccepted(Rank(found, officialHost, tokenizeRow(row)), 1)

\* the callback of main reaches its catch for this row
Throws(row) ==
  LET officialUrl == safeHttpUrl(row.official_url)
  IN /\ officialUrl # EmptyText
     /\ curatedOverride(row) = EmptyText
     /\ ~\E hostHint \in DISALLOWED_SOURCE_HOST_HINTS :
            hasHostHint(ParseText(officialUrl).hostname, hostHint)
     /\ officialUrl[1] \in faulty

\* what the callback of main leaves in the image_url of a row it is run for
CallbackResult(row) ==
  IF curatedOverride(row) # EmptyText THEN curatedOverride(row)
  ELSE IF Throws(row) THEN EmptyText
  ELSE resolveImageForRow(row)

\* main with one runner that never overlaps two entries: the rows it writes and
\* the counts it reports, as a function of the table and the answers of the network
Sequential(rows) ==
  LET pending == PendingRows(rows)
      resolved == [i \in 1..Len(rows) |->
                     [rows[i] EXCEPT !.image_url =
                        IF safeHttpUrl(rows[i].official_url) = EmptyText THEN EmptyText
                        ELSE CallbackResult(rows[i])]]
      merged == MergeById(resolved, pending)
  IN [rows |-> sanitizeRowsForCsv(Backfill(merged)),
      curated |-> Cardinality({k \in 1..Len(pending) : curatedOverride(rows[pending[k]]) # EmptyText}),
      fallbacks |-> Cardinality({i \in 1..Len(rows) : Backfilled(merged, i)})]

\* ---------------------------------------------------------------------------
\* Claims
\* ---------------------------------------------------------------------------
\* the row's image_url was set by this source at some point of the run
SetBy(i, source) == \E k \in 1..Len(writes[i]) : writes[i][k].by = source

\* C1: once the run is done, every row whose trimmed id has an entry in the
\* override table has that entry as its image_url, whatever its official_url is.
C1_OverrideWins ==
  pc = "done" =>
    \A i \in 1..Len(table) :
      OverrideFor(trim(table[i].id)) # EmptyText
        => csvOut[i].image_url = OverrideFor(trim(table[i].id))

\* C2: in the output every row has the image of the highest-priority source
\* that yielded one (override, then direct resolution, then manufacturer
\* fallback, else none): a row with an override hit has the override and was
\* never resolved directly, a row resolved directly keeps that image, and the
\* fallback only ever fills a row that was empty.
C2_PriorityOrder ==
  pc = "done" =>
    \A i \in 1..Len(table) :
      /\ OverrideFor(trim(table[i].id)) # EmptyText
           => /\ csvOut[i].image_url = OverrideFor(trim(table[i].id))
              /\ ~SetBy(i, "direct")
      /\ (OverrideFor(trim(table[i].id)) = EmptyText /\ SetBy(i, "direct"))
           => \E k \in 1..Len(writes[i]) :
                writes[i][k].by = "direct" /\ csvOut[i].image_url = writes[i][k].url
      /\ \A k \in 1..Len(writes[i]) :
           writes[i][k].by = "fallback" => (k = 1 \/ writes[i][k - 1].url = EmptyText)

\* C3: with the answers of the network fixed, the rows written and the curated
\* and fallback counts are those of the run that resolves the entries one after
\* the other, for every number of runners and every interleaving of them.
C3_Deterministic ==
  pc = "done" =>
    /\ csvOut = Sequential(table).rows
    /\ metaOut.manufacturer_image_curated_overrides = Sequential(table).curated
    /\ metaOut.manufacturer_image_manufacturer_fallbacks = Sequential(table).fallbacks

C3_Witness ==
  /\ pc = "done" /\ concurrency > 1
  /\ \E k \in 1..Len(taken) : k > 1 /\ taken[k][1] = 1
  /\ \E k \in 1..Len(taken) : taken[k][1] = 2
  /\ \E i \in 1..Len(table) : SetBy(i, "direct")
  /\ metaOut.manufacturer_image_manufacturer_fallbacks > 0

\* C4: the runners take the indices of the pending list in order, each index
\* once and none skipped; a runner has one entry in work at a time and has
\* stored the result of an entry before it takes the next index; results[i]
\* is the result for entry i, and holds it for every i once the pool returns.
C4_EachIndexOnce ==
  /\ \A k \in 1..Len(taken) : taken[k][2] = k
  /\ pc = "pool" => Len(taken) = Min(cursor - 1, Len(candidates))
  /\ \A w \in DOMAIN wk :
       /\ Cardinality({k \in 1..Len(taken) : taken[k][1] = w /\ results[taken[k][2]] = 0}) <= 1
       /\ wk[w].pc \in {"page", "head", "get", "ret"}
            => /\ \E k \in 1..Len(taken) : taken[k] = <<w, wk[w].index>>
               /\ results[wk[w].index] = 0
  /\ \A i \in DOMAIN results : results[i] # 0 => results[i] = candidates[i]
  /\ (pc \notin {"start", "aborted"} /\ \A w \in DOMAIN wk : wk[w].pc = "done")
       => \A i \in 1..Len(candidates) : results[i] = candidates[i]

C4_Witness ==
  /\ pc = "merged" /\ concurrency > 1 /\ Len(taken) = MaxPoolRows
  /\ \E w \in DOMAIN wk : Cardinality({k \in 1..Len(taken) : taken[k][1] = w}) > 1
  /\ \E k \in 1..Len(taken) : taken[k][1] = 2

\* C5: when the resolution of an entry raises an error the callback catches it:
\* the entry stays without an image, the failure count grows by one, the runner
\* goes on with the next index (it only returns when the list is used up), the
\* pool returns with every result stored, and the other entries have the image
\* their own pages yield.
C5_FailureIsolated ==
  /\ \A w \in DOMAIN wk : wk[w].pc = "done" => cursor > Len(candidates)
  /\ (pc = "pool" /\ \A w \in DOMAIN wk : wk[w].pc = "done") =>
       /\ failedCount = Cardinality({k \in 1..Len(candidates) : Throws(table[candidates[k]])})
       /\ \A k \in 1..Len(candidates) :
            /\ results[k] = candidates[k]
            /\ Throws(table[candidates[k]]) => workRows[candidates[k]].image_url = EmptyText
            /\ ~Throws(table[candidates[k]])
                 => workRows[candidates[k]].image_url = CallbackResult(table[candidates[k]])

C5_Witness ==
  /\ pc = "pool" /\ \A w \in DOMAIN wk : wk[w].pc = "done"
  /\ failedCount > 0
  /\ \E i \in 1..Len(table) : SetBy(i, "direct")
  /\ \E k1, k2 \in 1..Len(taken) :
       k1 < k2 /\ taken[k1][1] = taken[k2][1] /\ Throws(table[candidates[taken[k1][2]]])

\* no override applied and no resolution found an image
NothingResolved == \A i \in 1..Len(writes) : ~SetBy(i, "curated") /\ ~SetBy(i, "direct")

C7_ParseErrorAborts ==
  parseErrors =>
    /\ pc \in {"start", "aborted"}
    /\ netRequests = 0 /\ net = << >>
    /\ csvWrites = 0 /\ csvOut = << >>
    /\ metaWrites = 0 /\ metaOut = NoMetadata
    /\ pc = "aborted" => exitCode # 0 /\ stderr # ""

C7_Witness == parseErrors /\ pc = "aborted" /\ exitCode = 1

\* C8: the fallback pass gives every row without an image whose normalized
\* manufacturer is non-empty the image of the first row, in table order, of
\* the same normalized manufacturer that had an image before the pass; every
\* other row is left as it is (so rows the pass filled never lend their image).
C8_FallbackPass ==
  [][(pc = "merged" /\ pc' = "filled") =>
       /\ Len(workRows') = Len(workRows)
       /\ \A i \in 1..Len(workRows) :
            LET key == toLowerCase(sanitize(workRows[i].manufacturer))
                donors == {j \in 1..Len(workRows) :
                             /\ workRows[j].image_url # EmptyText
                             /\ toLowerCase(sanitize(workRows[j].manufacturer)) = key}
            IN IF workRows[i].image_url = EmptyText /\ key # EmptyText /\ donors # {}
               THEN \E j \in donors :
                      /\ \A d \in donors : j <= d
                      /\ workRows'[i] = [workRows[i] EXCEPT !.image_url = workRows[j].image_url]
               ELSE workRows'[i] = workRows[i]]_vars

C8_Witness ==
  /\ pc = "filled"
  /\ \E i, j, k \in 1..Len(workRows) :
       /\ j < k
       /\ SetBy(i, "fallback") /\ SetBy(j, "direct") /\ SetBy(k, "direct")
       /\ toLowerCase(sanitize(workRows[j].manufacturer)) = toLowerCase(sanitize(workRows[i].manufacturer))
       /\ toLowerCase(sanitize(workRows[k].manufacturer)) = toLowerCase(sanitize(workRows[i].manufacturer))
       /\ workRows[j].image_url # workRows[k].image_url
       /\ workRows[i].image_url = workRows[j].image_url

\* C9: at the end the curated count is the number of rows set from the
\* override table, the fallback count the number of rows the fallback pass
\* filled, no row is counted under two of curated, direct and fallback, and
\* the metadata's number of image links is the number of rows written with
\* an image, which is the sum of the three.
C9_CountsPartition ==
  pc = "done" =>
    LET curated == {i \in 1..Len(table) : SetBy(i, "curated")}
        direct == {i \in 1..Len(table) : SetBy(i, "direct")}
        fallback == {i \in 1..Len(table) : SetBy(i, "fallback")}
    IN /\ metaOut.manufacturer_image_curated_overrides = Cardinality(curated)
       /\ metaOut.manufacturer_image_manufacturer_fallbacks = Cardinality(fallback)
       /\ curated \cap direct = {} /\ curated \cap fallback = {} /\ direct \cap fallback = {}
       /\ metaOut.manufacturer_image_links
            = Cardinality({i \in 1..Len(csvOut) : csvOut[i].image_url # EmptyText})
       /\ metaOut.manufacturer_image_links
            = Cardinality(curated) + Cardinality(direct) + Cardinality(fallback)

\* C10: a candidate whose probe reports a content length above 0 and below
\* MIN_CONTENT_LENGTH is never accepted, a probe that reports no length (0) is
\* accepted on its score alone, and every image set by direct resolution is one
\* the probe loop accepted.
C10_UndersizedRejected ==
  /\ \A j \in judged :
       (j.image /\ j.contentLength > 0 /\ j.contentLength < MIN_CONTENT_LENGTH) => ~j.accepted
  /\ \A j \in judged :
       (j.image /\ j.contentLength = 0 /\ j.score >= ACCEPT_SCORE) => j.accepted
  /\ \A i \in 1..Len(writes) : \A k \in 1..Len(writes[i]) :
       writes[i][k].by = "direct"
         => \E j \in judged : j.row = i /\ <<j.url>> = writes[i][k].url /\ j.accepted
                                /\ ~(j.contentLength > 0 /\ j.contentLength < MIN_CONTENT_LENGTH)

C10_Witness ==
  /\ pc = "done"
  /\ \E j \in judged : j.contentLength = 1500 /\ j.score >= ACCEPT_SCORE /\ ~j.accepted
  /\ \E j \in judged : j.contentLength = 0 /\ j.image /\ j.accepted

\* C11: a candidate whose URL contains a hard-block hint is never probed (no
\* HEAD and no ranged GET request goes to it), never judged and never set as
\* the image of a row by direct resolution, whatever its static score is; and
\* for the product page with a same-domain og:image hero and a favicon link,
\* an entry whose page was read and whose hero probe came back as an image of
\* an acceptable size has the hero as its result.
C11_HardBlockNeverProbed ==
  LET blocked(url) == \E hint \in HARD_BLOCK_IMAGE_HINTS : Includes(lower(url), hint)
      hero == "https://vendor.example/img/hero-1200x800.jpg"
  IN /\ \A request \in DOMAIN net : request[1] \in {"HEAD", "RANGE"} => ~blocked(request[2])
     /\ \A j \in judged : ~blocked(j.url)
     /\ \A i \in 1..Len(writes) : \A k \in 1..Len(writes[i]) :
          writes[i][k].by = "direct" => ~blocked(writes[i][k].url[1])
     /\ (pc = "pool" /\ PoolReturned) =>
          \A k \in 1..Len(candidates) :
            LET row == table[candidates[k]]
            IN (/\ safeHttpUrl(row.official_url) = <<"https://vendor.example/product">>
                /\ curatedOverride(row) = EmptyText
                /\ ~Throws(row)
                /\ ~net[<<"GET", "https://vendor.example/product">>].failed
                /\ probeImage(hero).image
                /\ ~(probeImage(hero).contentLength > 0
                       /\ probeImage(hero).contentLength < MIN_CONTENT_LENGTH))
                 => workRows[candidates[k]].image_url = <<hero>>

\* an entry resolved to the hero of the page that links a favicon, and a runner
\* that has passed over a hard-blocked candidate of an accepting score
C11_Witness ==
  /\ pc = "pool"
  /\ \E i \in 1..Len(writes) :
       /\ safeHttpUrl(table[i].official_url) = <<"https://vendor.example/product">>
       /\ SetBy(i, "direct")
       /\ workRows[i].image_url = <<"https://vendor.example/img/hero-1200x800.jpg">>
  /\ \E w \in DOMAIN wk :
       /\ wk[w].pc = "head" /\ wk[w].pos = 3
       /\ wk[w].ranked[2].url = "https://favicon.acme.example/p.jpg"
       /\ wk[w].ranked[2].key >= ACCEPT_SCORE

\* C12: of two candidates ranked for an entry, one on a social-network asset
\* host (facebook.com, fbcdn.net, twitter.com, x.com, linkedin.com or a
\* subdomain of one) and one on the entry's official domain whose path has
\* neither the SVG nor the denylist penalty, the one on the social host has the
\* strictly lower static score and stands behind the other in the ranking.
C12_SocialBelowSameDomain ==
  \A w \in DOMAIN wk :
    LET ranked == wk[w].ranked
        officialHost == ParseText(safeHttpUrl(table[candidates[wk[w].index]].official_url)).hostname
        host(c) == ParseURL(c.url).hostname
        path(c) == lower(ParseURL(c.url).pathname \o ParseURL(c.url).search)
        onSocialHost(c) ==
          /\ Len(host(c)) >= 2
          /\ LastLabels(host(c), 2) \in {<<"facebook", "com">>, <<"fbcdn", "net">>, <<"twitter", "com">>,
                                         <<"x", "com">>, <<"linkedin", "com">>}
        onOfficialDomain(c) == normalizeRootDomain(host(c)) = normalizeRootDomain(officialHost)
        pathSignalNonNegative(c) ==
          ~SvgRegex(path(c)) /\ ~\E hint \in BAD_IMAGE_HINTS : Includes(path(c), hint)
    IN \A a, b \in 1..Len(ranked) :
         (/\ onSocialHost(ranked[a])
          /\ onOfficialDomain(ranked[b]) /\ pathSignalNonNegative(ranked[b]))
           => ranked[a].key < ranked[b].key /\ b < a

\* C13: after the merge every row of the table holds the image_url its own
\* resolution produced (the override, or what resolveImageForRow returned, or
\* nothing where it threw), and a row that was not scheduled holds none.
C13_MergeKeepsOwnResult ==
  pc = "merged" =>
    \A i \in 1..Len(table) :
      workRows[i].image_url =
        IF \E k \in 1..Len(candidates) : candidates[k] = i
        THEN CallbackResult(table[i])
        ELSE EmptyText

\* C14: a row without a valid http(s) official_url is never scheduled, is set
\* neither from the override table nor by direct resolution, and no page is
\* requested for it (a table of such rows only causes no request at all); if
\* its id has no override and no other row of its normalized manufacturer has
\* an image behind the merge, it is written with an empty image_url and is
\* counted under neither statistic.
C14_NoUrlNoImage ==
  pc = "done" =>
    LET unscheduled == {i \in 1..Len(table) : safeHttpUrl(table[i].official_url) = EmptyText}
        pagesOf(i) == LET pages == sourcePages(safeHttpUrl(table[i].official_url)[1])
                      IN {pages[k] : k \in 1..Len(pages)}
        resolvedBeforeFallback(j) ==
          \E k \in 1..Len(writes[j]) :
            /\ writes[j][k].by # "fallback" /\ writes[j][k].url # EmptyText
            /\ \A l \in (k + 1)..Len(writes[j]) : writes[j][l].by = "fallback"
    IN /\ \A i \in unscheduled :
            /\ \A k \in 1..Len(candidates) : candidates[k] # i
            /\ ~SetBy(i, "curated") /\ ~SetBy(i, "direct")
            /\ (/\ OverrideFor(trim(table[i].id)) = EmptyText
                /\ \A j \in 1..Len(table) :
                     (j # i /\ manufacturerKeyOf(table[j]) = manufacturerKeyOf(table[i]))
                       => ~resolvedBeforeFallback(j))
                 => /\ csvOut[i].image_url = EmptyText
                    /\ ~SetBy(i, "fallback")
       /\ \A request \in DOMAIN net :
            request[1] = "GET"
              => \E i \in (1..Len(table)) \ unscheduled : request[2] \in pagesOf(i)
       /\ unscheduled = 1..Len(table) => netRequests = 0 /\ net = << >>

\* C15: the update of the metadata file leaves every key the file held that is
\* not one of the five keys of the pipeline in place with its value, adds no
\* key but those five, and the file changes in no other step of the run.
C15_MetadataOtherKeysKept ==
  [][/\ (pc = "written" /\ pc' = "done") =>
          /\ DOMAIN metaOut' = DOMAIN metaOut \cup PipelineKeys
          /\ \A key \in DOMAIN metaOut \ PipelineKeys : metaOut'[key] = metaOut[key]
     /\ metaOut' # metaOut => (pc = "written" /\ pc' = "done")]_vars

\* the file of an earlier run, updated: the keys of the generator are there,
\* the counts of the earlier run are replaced
C15_Witness ==
  /\ pc = "done" /\ metaWrites = 1
  /\ DOMAIN GeneratedMetadata \subseteq DOMAIN metaOut
  /\ \A key \in DOMAIN GeneratedMetadata : metaOut[key] = GeneratedMetadata[key]
  /\ metaOut["manufacturer_image_curated_overrides"] = 1
  /\ metaOut["manufacturer_image_links"] = 2
  /\ metaOut["manufacturer_image_enriched_at"] \in Timestamps

\* C16: the rows written are a function of the table with its image_url cells
\* emptied and of the answers of the network, so two runs on tables that
\* differ in image_url cells only write the same; every image_url written is
\* the one the run set last for the row, and empty where it set none.
C16_InputImageIgnored ==
  pc = "done" =>
    /\ csvOut = Sequential([i \in 1..Len(table) |-> [table[i] EXCEPT !.image_url = EmptyText]]).rows
    /\ \A i \in 1..Len(table) :
         csvOut[i].image_url =
           IF writes[i] = << >> THEN EmptyText ELSE writes[i][Len(writes[i])].url

\* a row that came with an image and is written without one, next to a row that
\* came with an image and is written with another
C16_Witness ==
  /\ pc = "done"
  /\ \E i, j \in 1..Len(table) :
       /\ table[i].image_url # EmptyText /\ csvOut[i].image_url = EmptyText
       /\ table[j].image_url # EmptyText /\ csvOut[j].image_url # EmptyText
       /\ csvOut[j].image_url # table[j].image_url

C18_FirstQualifyingWins ==
  (pc = "pool" /\ PoolReturned) =>
    \A k \in 1..Len(candidates) :
      LET row == table[candidates[k]]
          officialUrl == safeHttpUrl(row.official_url)
          officialHost == ParseText(officialUrl).hostname
          pages == sourcePages(officialUrl[1])
          found == Flatten([n \in 1..Len(pages) |->
                              IF net[<<"GET", pages[n]>>].failed THEN << >>
                              ELSE collectImageCandidates(net[<<"GET", pages[n]>>].body, pages[n])])
          score(i) == staticCandidateScore(found[i], officialHost, tokenizeRow(row))
          before(i, j) == score(i) > score(j) \/ (score(i) = score(j) /\ i < j)
          bonus(n) == IF n >= 250000 THEN 12 ELSE IF n >= 80000 THEN 8 ELSE IF n >= 12000 THEN 4 ELSE 0
          blocked(i) == \E hint \in HARD_BLOCK_IMAGE_HINTS : Includes(lower(found[i].url), hint)
          probesOf(i) == {j \in judged : j.row = candidates[k] /\ j.url = found[i].url /\ j.score = score(i)}
          qualifies(i) ==
            /\ ~blocked(i)
            /\ \E j \in probesOf(i) :
                 /\ j.image
                 /\ ~(j.contentLength > 0 /\ j.contentLength < MIN_CONTENT_LENGTH)
                 /\ score(i) + bonus(j.contentLength) >= ACCEPT_SCORE
          result == workRows[candidates[k]].image_url
      IN (curatedOverride(row) = EmptyText /\ ~Throws(row)
          /\ \A n \in 1..Len(pages) : <<"GET", pages[n]>> \in DOMAIN net)
           => IF \E i \in 1..Len(found) : qualifies(i)
              THEN \E q \in 1..Len(found) :
                     /\ qualifies(q)
                     /\ result = <<found[q].url>>
                     /\ \A i \in 1..Len(found) :
                          /\ before(i, q) => ~qualifies(i) /\ (blocked(i) \/ probesOf(i) # {})
                          /\ before(q, i) => probesOf(i) = {}
              ELSE result = EmptyText

\* the entry has the second of two candidates of one score: the first, found
\* on the official page, was probed and rejected, as was the best-scored one,
\* and the candidate found first of all, of the lowest score, was not probed
C18_Witness ==
  /\ pc = "pool" /\ PoolReturned
  /\ table[1].official_url = <<"https://vendor.example/press">>
  /\ workRows[1].image_url = <<"https://cdn.shop.example/media/front.png">>
  /\ \E j \in judged : j.url = "https://cdn.shop.example/media/side.png" /\ j.contentLength = 1500
  /\ \E j \in judged : j.url = "https://vendor.example/img/hero-1200x800.jpg" /\ ~j.image
  /\ ~\E j \in judged : j.url = "https://scontent.fbcdn.net/v/hero.jpg"

\* C19: of the candidates found for an entry only those on the first 16
\* places of the ranking by static score are ever probed or set as its image,
\* also when each of the 16 is skipped or rejected; the entry causes at most
\* 16 HEAD and at most 16 ranged GET requests.
C19_AtMostSixteenProbed ==
  \A k \in 1..Len(candidates) :
    LET row == table[candidates[k]]
        officialUrl == safeHttpUrl(row.official_url)
        officialHost == ParseText(officialUrl).hostname
        pages == sourcePages(officialUrl[1])
        found == Flatten([n \in 1..Len(pages) |->
                            IF net[<<"GET", pages[n]>>].failed THEN << >>
                            ELSE collectImageCandidates(net[<<"GET", pages[n]>>].body, pages[n])])
        score(i) == staticCandidateScore(found[i], officialHost, tokenizeRow(row))
        place(i) == 1 + Cardinality({j \in 1..Len(found) :
                                       score(j) > score(i) \/ (score(j) = score(i) /\ j < i)})
        considered == {found[i].url : i \in {j \in 1..Len(found) : place(j) <= 16}}
        urls == {found[i].url : i \in 1..Len(found)}
    IN (\E j \in judged : j.row = candidates[k]) =>
         /\ \A j \in judged : j.row = candidates[k] => j.url \in considered
         /\ \A n \in 1..Len(writes[candidates[k]]) :
              writes[candidates[k]][n].by = "direct"
                => writes[candidates[k]][n].url[1] \in considered
         /\ Len(table) = 1 =>
              /\ \A request \in DOMAIN net :
                   request[1] \in {"HEAD", "RANGE"} => request[2] \in considered
              /\ Cardinality({request \in DOMAIN net : request[1] = "HEAD"}) <= 16
              /\ Cardinality({request \in DOMAIN net : request[1] = "RANGE"}) <= 16

\* 18 candidates were found, each of the first 16 was probed twice and came
\* back as no image, and the entry is left without an image
C19_Witness ==
  /\ pc = "pool" /\ PoolReturned
  /\ table[1].official_url = <<"https://vendor.example/gallery">>
  /\ ~net[<<"GET", "https://vendor.example/gallery">>].failed
  /\ Cardinality({request \in DOMAIN net : request[1] = "HEAD"}) = 16
  /\ Cardinality({request \in DOMAIN net : request[1] = "RANGE"}) = 16
  /\ Cardinality({j \in judged : ~j.image}) = 16
  /\ workRows[1].image_url = EmptyText

\* C20: a probe asks with HEAD first; it asks with the ranged GET exactly when
\* the HEAD attempt gave no image (no response, a status that is not ok, a
\* content type that is no image); it reports no image only when the GET
\* attempt gave none either, and it never fails its caller.
C20_HeadThenRangedGet ==
  /\ [](/\ \A request \in DOMAIN net :
            request[1] = "RANGE" =>
              /\ <<"HEAD", request[2]>> \in DOMAIN net
              /\ ~net[<<"HEAD", request[2]>>].image
        /\ \A w \in Workers :
            (pc = "pool" /\ wk[w].pc = "get") =>
              /\ <<"HEAD", wk[w].ranked[wk[w].pos].url>> \in DOMAIN net
              /\ ~net[<<"HEAD", wk[w].ranked[wk[w].pos].url>>].image
        /\ \A j \in judged :
            LET head == net[<<"HEAD", j.url>>]
                get == net[<<"RANGE", j.url>>]
            IN /\ <<"HEAD", j.url>> \in DOMAIN net
               /\ ~head.image => <<"RANGE", j.url>> \in DOMAIN net
               /\ j.image => \/ head.image /\ j.contentLength = head.contentLength
                             \/ ~head.image /\ get.image /\ j.contentLength = get.contentLength
               /\ ~j.image => ~head.image /\ ~get.image)
  /\ [][\A w \in Workers :
          LET url == wk[w].ranked[wk[w].pos].url
              row == candidates[wk[w].index]
          IN /\ (pc = "pool" /\ wk[w].pc = "head" /\ wk'[w] # wk[w]) =>
                  /\ failedCount' = failedCount
                  /\ IF net'[<<"HEAD", url>>].image
                     THEN /\ wk'[w].pc # "get"
                          /\ \E j \in judged' : j.row = row /\ j.url = url /\ j.image
                     ELSE /\ wk'[w].pc = "get"
                          /\ wk'[w].pos = wk[w].pos
                          /\ netRequests' = netRequests + 1
                          /\ judged' = judged
             /\ (pc = "pool" /\ wk[w].pc = "get" /\ wk'[w] # wk[w]) =>
                  /\ failedCount' = failedCount
                  /\ wk'[w].pc # "get"
                  /\ \E j \in judged' :
                       /\ j.row = row /\ j.url = url
                       /\ j.image = net'[<<"RANGE", url>>].image]_vars

\* image servers that may not respond at all; one probe got no image from HEAD
\* and none from the ranged GET and was reported as no image, another got its
\* image from the ranged GET, and no entry failed
C20_Witness ==
  /\ pc = "pool" /\ PoolReturned
  /\ "error" \in servers.probes
  /\ \E j \in judged :
       ~j.image /\ ~net[<<"HEAD", j.url>>].image /\ ~net[<<"RANGE", j.url>>].image
  /\ \E j \in judged :
       j.image /\ ~net[<<"HEAD", j.url>>].image /\ net[<<"RANGE", j.url>>].image
  /\ failedCount = 0

\* C21: when the pool has returned, each source page of a resolved entry has
\* been requested whatever the other one answered; the candidates of every
\* page that answered were ranked and the first of them that is not
\* hard-blocked was probed; when no page answered nothing was probed and the
\* entry has no image of its own.
C21_PagesFetchedIndependently ==
  (pc = "pool" /\ PoolReturned) =>
    \A k \in 1..Len(candidates) :
      LET row == table[candidates[k]]
          officialUrl == safeHttpUrl(row.official_url)
          officialHost == ParseText(officialUrl).hostname
          pages == sourcePages(officialUrl[1])
          found == Flatten([n \in 1..Len(pages) |->
                              IF net[<<"GET", pages[n]>>].failed THEN << >>
                              ELSE collectImageCandidates(net[<<"GET", pages[n]>>].body, pages[n])])
          score(i) == staticCandidateScore(found[i], officialHost, tokenizeRow(row))
          probable == {i \in 1..Len(found) : ~HardBlocked(found[i].url)}
          first == {i \in probable :
                      \A j \in probable : score(j) < score(i) \/ (score(j) = score(i) /\ i <= j)}
      IN (/\ curatedOverride(row) = EmptyText
          /\ officialUrl # EmptyText
          /\ ~\E hostHint \in DISALLOWED_SOURCE_HOST_HINTS : hasHostHint(officialHost, hostHint)
          /\ officialUrl[1] \notin faulty) =>
           /\ \A n \in 1..Len(pages) : <<"GET", pages[n]>> \in DOMAIN net
           /\ \A i \in first : \E j \in judged : j.row = candidates[k] /\ j.url = found[i].url
           /\ (\A n \in 1..Len(pages) : net[<<"GET", pages[n]>>].failed) =>
                /\ ~\E j \in judged : j.row = candidates[k]
                /\ \A n \in 1..Len(writes[candidates[k]]) : writes[candidates[k]][n].by # "direct"
                /\ Len(table) = 1 => ~\E request \in DOMAIN net : request[1] \in {"HEAD", "RANGE"}

\* the official page did not answer, the origin root did, and the image it
\* names was probed and set
C21_Witness ==
  /\ pc = "pool" /\ PoolReturned /\ Len(table) = 1
  /\ table[1].official_url = <<"https://vendor.example/product">>
  /\ net[<<"GET", "https://vendor.example/product">>].failed
  /\ ~net[<<"GET", "https://vendor.example">>].failed
  /\ \E j \in judged : j.url = "https://cdn.shop.example/media/front.png" /\ j.accepted
  /\ workRows[1].image_url = <<"https://cdn.shop.example/media/front.png">>

\* C22: no request is made for a URL whose document fetch or probe has failed
\* before in the run: the answer to a document fetch, a HEAD probe or a ranged
\* GET probe never arrives for a URL that is on record with a failure of that
\* request.
C22_NoRequestAfterFailure ==
  [][\A w \in Workers :
       (pc = "pool" /\ wk'[w] # wk[w]) =>
         /\ wk[w].pc = "page" =>
              ~(/\ <<"GET", wk[w].pages[wk[w].k]>> \in DOMAIN net
                /\ net[<<"GET", wk[w].pages[wk[w].k]>>].failed)
         /\ wk[w].pc = "head" =>
              ~(/\ <<"HEAD", wk[w].ranked[wk[w].pos].url>> \in DOMAIN net
                /\ ~net[<<"HEAD", wk[w].ranked[wk[w].pos].url>>].image)
         /\ wk[w].pc = "get" =>
              ~(/\ <<"RANGE", wk[w].ranked[wk[w].pos].url>> \in DOMAIN net
                /\ ~net[<<"RANGE", wk[w].ranked[wk[w].pos].url>>].image)]_vars

\* C23: an entry whose official URL is an origin root (path "/", no query) is
\* resolved from one source page, any other entry from two: the official URL
\* and, second, its origin.
C23_OriginFetchedIfDistinct ==
  \A w \in Workers :
    (pc = "pool" /\ wk[w].pc = "page") =>
      LET official == ParseURL(wk[w].pages[1])
      IN IF official.pathname = "/" /\ official.search = ""
         THEN Len(wk[w].pages) = 1
         ELSE wk[w].pages = <<href(official), origin(official)>>

\* C24: from the merge on (the fallback index is built behind it) every runner
\* of the pool has returned and every pending entry has been taken and has its
\* result; nothing of a resolution happens any more (no request, no probe
\* judged, no image set by a resolution); rows are backfilled only in the
\* fallback step and the CSV is written only behind it.
C24_FallbackBehindPool ==
  /\ [](/\ pc \in {"merged", "filled", "written", "done"} =>
            /\ \A w \in Workers : wk[w].pc = "done"
            /\ \A k \in 1..Len(candidates) :
                 /\ results[k] # 0
                 /\ \E n \in 1..Len(taken) : taken[n][2] = k
        /\ \A i \in 1..Len(writes) : \A n \in 1..Len(writes[i]) :
             writes[i][n].by = "fallback" => pc \in {"filled", "written", "done"}
        /\ csvWrites > 0 => pc \in {"written", "done"})
  /\ [][/\ pc \in {"merged", "filled", "written", "done"} =>
            /\ wk' = wk /\ net' = net /\ judged' = judged /\ netRequests' = netRequests
            /\ \A i \in 1..Len(writes) : \A n \in (Len(writes[i]) + 1)..Len(writes'[i]) :
                 writes'[i][n].by = "fallback" /\ pc = "merged"
        /\ csvOut' # csvOut => pc = "filled"]_vars

\* two runners and more entries than runners: one entry resolved by a runner,
\* another backfilled from it, and the CSV written
C24_Witness ==
  /\ pc = "written" /\ concurrency = 2 /\ Len(candidates) > concurrency
  /\ \E n \in 1..Len(taken) : taken[n][1] = 2
  /\ \E i \in 1..Len(writes) : \E n \in 1..Len(writes[i]) : writes[i][n].by = "direct"
  /\ \E i \in 1..Len(writes) : \E n \in 1..Len(writes[i]) : writes[i][n].by = "fallback"
  /\ csvWrites = 1

\* C25: the image of a row is set at most once by the resolution of its entry
\* (override or scraping) and at most once by the fallback pass, and until
\* the CSV is written no step changes or clears an image a row holds, the
\* merge included.
C25_ImageSetOnceAndKept ==
  /\ [](\A i \in 1..Len(writes) :
          /\ Cardinality({n \in 1..Len(writes[i]) : writes[i][n].by \in {"direct", "curated"}}) <= 1
          /\ Cardinality({n \in 1..Len(writes[i]) : writes[i][n].by = "fallback"}) <= 1)
  /\ [][\A i \in 1..Len(workRows) :
          (pc \in {"pool", "merged", "filled"} /\ workRows[i].image_url # EmptyText)
            => workRows'[i].image_url = workRows[i].image_url]_vars

\* C26: a runner never waits for the network without a deadline: its waits
\* are the requests made inside withTimeout (the fetch of a page, the HEAD
\* probe, the ranged GET probe), which the timer ends, and never the reading
\* of a response body, which no timer covers.
C26_EveryWaitHasDeadline ==
  \A w \in Workers :
    pc = "pool" => wk[w].pc \in {"idle", "page", "head", "get", "ret", "done"}

\* C27: every field of a row other than image_url keeps the value it has in
\* the table that was read: in the rows main works on at every moment of the
\* run, and in the rows of the CSV once it is written.
C27_OnlyImageUrlChanges ==
  LET kept(row, i) == \A field \in DOMAIN table[i] \ {"image_url"} : row[field] = table[i][field]
  IN /\ pc \in {"pool", "merged", "filled", "written", "done"} =>
          /\ Len(workRows) = Len(table)
          /\ \A i \in 1..Len(table) : kept(workRows[i], i)
     /\ csvWrites > 0 =>
          /\ Len(csvOut) = Len(table)
          /\ \A i \in 1..Len(table) : kept(csvOut[i], i)

\* C28: of the candidate list (srcset) of a source or img element of a page
\* that was read, the entry of the highest weight is a candidate of the page
\* and no entry of a lower weight is one, unless the document names its URL
\* in another place.
C28_OneCandidatePerSrcset ==
  \A request \in DOMAIN net :
    (request[1] = "GET" /\ ~net[request].failed) =>
      LET html == net[request].body
          urls == {c.url : c \in {collectImageCandidates(html, request[2])[n] :
                                    n \in 1..Len(collectImageCandidates(html, request[2]))}}
          weight(entry) == IF entry.unit = "w" THEN entry.num
                           ELSE IF entry.unit = "x" THEN entry.num * 1000
                           ELSE 0
          named == {html[t].url : t \in 1..Len(html)}
      IN \A t \in 1..Len(html) :
           html[t].tag \in {"source", "img"} =>
             \A n \in 1..Len(html[t].srcset) :
               LET entry == html[t].srcset[n]
               IN IF \A m \in 1..Len(html[t].srcset) : weight(html[t].srcset[m]) <= weight(entry)
                  THEN toAbsoluteUrl(entry.url, request[2]) \in urls \cup {""}
                  ELSE entry.url \in named \/ toAbsoluteUrl(entry.url, request[2]) \notin urls

\* C29: of the img elements of a page that was read, one behind the 80th in
\* document order contributes no candidate: its src is a candidate of the
\* page only if the document names it in another place.
C29_FirstEightyImgElements ==
  \A request \in DOMAIN net :
    (request[1] = "GET" /\ ~net[request].failed) =>
      LET html == net[request].body
          imgTags == extractTags(html, "img")
          urls == {c.url : c \in {collectImageCandidates(html, request[2])[n] :
                                    n \in 1..Len(collectImageCandidates(html, request[2]))}}
      IN \A t \in 81..Len(imgTags) :
           \/ imgTags[t].url = ""
           \/ \E e \in 1..80 : imgTags[e].url = imgTags[t].url
           \/ toAbsoluteUrl(imgTags[t].url, request[2]) \notin urls

\* C30: a candidate whose HEAD probe gave no image and whose ranged GET gave
\* one is judged with the content length of the ranged response: it is
\* accepted exactly if that length is not above 0 and below MIN_CONTENT_LENGTH
\* and its score plus the size bonus of that length reaches ACCEPT_SCORE, so
\* with a declared length of 2 it is rejected whatever its score.
C30_RangedLengthJudged ==
  \A j \in judged :
    (/\ <<"HEAD", j.url>> \in DOMAIN net /\ ~net[<<"HEAD", j.url>>].image
     /\ <<"RANGE", j.url>> \in DOMAIN net /\ net[<<"RANGE", j.url>>].image) =>
      LET length == net[<<"RANGE", j.url>>].contentLength
          bonus == IF length >= 250000 THEN 12
                   ELSE IF length >= 80000 THEN 8
                   ELSE IF length >= 12000 THEN 4
                   ELSE 0
      IN /\ j.image
         /\ j.contentLength = length
         /\ j.accepted <=> /\ ~(0 < length /\ length < MIN_CONTENT_LENGTH)
                           /\ j.score + bonus >= ACCEPT_SCORE
         /\ length = 2 => ~j.accepted

C30_Witness ==
  /\ pc = "done"
  /\ \E j \in judged :
       /\ <<"HEAD", j.url>> \in DOMAIN net /\ ~net[<<"HEAD", j.url>>].image
       /\ <<"RANGE", j.url>> \in DOMAIN net /\ net[<<"RANGE", j.url>>].image
       /\ net[<<"RANGE", j.url>>].contentLength = 2
       /\ j.score >= ACCEPT_SCORE
       /\ ~j.accepted
====
